---- MODULE Spec2Model ----
(***************************************************************************)
(* power-repl: a REPL server attached to a running process (serve) and    *)
(* the terminal client that connects to it (connect).                     *)
(*                                                                         *)
(* Source: src/src/index.ts, second (current) version, lines 208-545.     *)
(* The server half (serve) and the client half (connect) run in different *)
(* processes; each has its own specification over its own variables.      *)
(***************************************************************************)
EXTENDS Integers, Sequences, FiniteSets, TLC

(***************************************************************************)
(* Bounds of the model.                                                    *)
(***************************************************************************)
MaxServe == 1
MaxConns == 2
MaxWrites == 1
MaxEvals == 2

Conns == 1..MaxConns
Servers == 1..MaxServe

(***************************************************************************)
(* Generic helpers.                                                        *)
(***************************************************************************)
Count(seq, x) == Cardinality({i \in 1..Len(seq) : seq[i] = x})

(***************************************************************************)
(* SERVER: serve()                                                         *)
(***************************************************************************)
VARIABLES
    nServe,          \* number of serve() calls made so far in this process
    connSrv,         \* connSrv[c]: the server (serve call) that accepted c, 0: none
    sockState,       \* "none" | "open" | "destroyed" (close pending) | "closed"
    hsDone,          \* the once("data") listener of c has fired
    frame,           \* the first data frame of c
    replState,       \* replServer of c: "undef" | "running" | "closed"
    nRepl,           \* number of repl.start() calls that returned, per connection
    nParse,          \* number of frames handed to JSON.parse, per connection
    stdoutSessions,  \* stdoutSessions[s]: the Set of serve call s
    termLog,         \* ids of the writes passed to the original stdout.write
    sockCalls,       \* sockCalls[c]: ids of the fanout calls socket.write of c got
    sockOut,         \* sockOut[c]: what the REPL of c wrote to its socket
    nWrites,         \* number of process.stdout.write calls of the host
    regAtWrite,      \* regAtWrite[w]: sockets registered when write w was made
    regAtHs,         \* regAtHs[c]: membership right after c's handshake handler
    wrapDepth,       \* number of interceptors wrapped around the original write
    sockErrs,        \* sockErrs[c]: ids of the fanout writes that failed on c
    escaped,         \* ids of the stdout writes that threw to their caller
    nEval,           \* number of lines evaluated so far
    lastEval,        \* the line evaluated last: its session, its outcome, what
                     \* the callback got, and the session right after it
    retLog,          \* retLog[w]: what the original write returned for write
                     \* w and what the caller of process.stdout.write got
    nStderr,         \* number of process.stderr.write calls of the host
    regAtStderr,     \* regAtStderr[e]: sockets registered at stderr write e
    sockStderr,      \* sockStderr[c]: ids of the stderr writes c's socket got
    binding,         \* the value of a binding of the process-global context
    assigned,        \* the value assigned last to it, and by whom: a
                     \* session, 0: the host program, -1: nobody yet
    hostSeen,        \* what the host read from the binding last, and the
                     \* value assigned last when it read
    nodeVersion      \* process.version: its major and its minor

serverVars == <<nServe, connSrv, sockState, hsDone, frame, replState, nRepl,
                nParse, stdoutSessions, termLog, sockCalls, sockOut,
                nWrites, regAtWrite, regAtHs, wrapDepth, sockErrs, escaped,
                nEval, lastEval, retLog, nStderr, regAtStderr, sockStderr,
                binding, assigned, hostSeen, nodeVersion>>

(* The part of the host process that only its own writes and statements    *)
(* and the lines of the sessions touch.                                    *)
hostVars == <<retLog, nStderr, regAtStderr, sockStderr, binding, assigned,
              hostSeen, nodeVersion>>

(* The state of the client process (connect()).                           *)
VARIABLES
    cpc,             \* "connect" (awaiting the socket) | "loading" (awaiting
                     \* fs.readFile) | "ready" | "ensureDir" | "writeFile"
                     \* | "exited" | "threw" | "fsFailed"
    csock,           \* the client's socket: "open" | "destroyed" | "closed"
    hadError,        \* the argument of the socket's "close" event
    canExit,         \* the armed flag
    optPrompt,       \* options.prompt as given by the caller, or NoPrompt
    prompt,          \* input._prompt, the prompt readline displays
    terminal,        \* whether readline runs on a TTY (it keeps history only then)
    optHistorySize,  \* options.historySize as given (0: absent)
    rmDup,           \* options.removeHistoryDuplicates
    historyDefined,  \* input.history is an array (not undefined)
    inputHistory,    \* input.history, newest first
    fileExists,      \* the history file exists
    fileContent,     \* its content
    dirExists,       \* its directory exists
    writeBuf,        \* the content handed to fs.writeFile
    sent,            \* what the client wrote to its open socket, in order
                     \* (from the handshake on where the client starts at
                     \* "loading")
    rendered,        \* the chunks written to the local terminal, last one kept
    chunk,           \* the chunk last received from the socket
    nChunks,         \* number of chunks received
    exitCode,        \* -1: process.exit not called
    fileAtStart,     \* history file at connection start: [exists, content]
    submitted,       \* lines submitted before the socket closed, in order
    lateLine,        \* a line was submitted after the socket closed
    sigLog,          \* the interrupts and the lines, in order, each with the
                     \* armed flag and the socket before and after it, and
                     \* whether it sent ".break"
    pauseLog,        \* the "pause" events handled: the armed flag, whether
                     \* the continuation prompt was displayed, and the
                     \* socket before and after
    nRendered,       \* process.stdout.write calls of the "data" handler
    nRuns            \* client processes started so far, one after the
                     \* other, on the same options and history file

clientVars == <<cpc, csock, hadError, canExit, optPrompt, prompt, terminal,
                optHistorySize, rmDup, historyDefined, inputHistory, fileExists,
                fileContent, dirExists, writeBuf, sent, rendered, chunk, nChunks,
                exitCode, fileAtStart, submitted, lateLine, sigLog, pauseLog,
                nRendered, nRuns>>

(* All of it but what was written to the socket.                           *)
clientLoopVars ==
    <<cpc, csock, hadError, canExit, optPrompt, prompt, terminal,
      optHistorySize, rmDup, historyDefined, inputHistory, fileExists,
      fileContent, dirExists, writeBuf, rendered, chunk, nChunks, exitCode,
      fileAtStart, submitted, lateLine, sigLog, pauseLog, nRendered,
      nRuns>>

(* The endpoint: the platform, the filesystem path given to serve() and    *)
(* connect(), what is listening, and the promises of the two calls.        *)
VARIABLES
    platform,        \* os.platform(): "win32" | "posix"
    isWorker,        \* cluster.isWorker of the serving process
    pathKind,        \* what is at the path: "none" | "file" | "socket"
    pathText,        \* the content of the file at the path
    listening,       \* the endpoints some server of the process listens on
    nCalls,          \* number of serve() calls (stepwise)
    sArg,            \* argument of the serve() call: "path" | "port" | "none"
    spc,             \* where the serve() call is: "idle" | "ensureDir" |
                     \* "pathExists" | "unlink" | "listen" | "writePort" |
                     \* "resolved" | "rejected" | "hung" (never settles)
    listenOn,        \* the endpoint server.listen was called with
    staleAtListen,   \* a resource was at the path when listen was called on
                     \* the path: "na" | "no" | "yes"
    hadStale,        \* a resource was at the path when serve() was called
    sErr,            \* the error raised in the serve() call, "none": none
    sRej,            \* the error its promise was rejected with
    nConnects,       \* number of connect() calls
    kpc,             \* where the connect() call is: "idle" | "pathExists" |
                     \* "readFile" | "connecting" | "writing" | "resolved" |
                     \* "rejected"
    kTarget,         \* the endpoint socket.connect was called with
    kSrv,            \* the port the port-file server listened on when the
                     \* file was read, -1: no such server
    kErr,            \* the error raised in the connect() call
    kRej,            \* the error its promise was rejected with
    sockPath,        \* serve: the path given (<<>>: none was given)
    optPath,         \* serve: options["path"] as passed to server.listen
    kPath,           \* connect: the path given
    kOptPath         \* connect: options["path"] as passed to socket.connect

transportVars == <<platform, isWorker, pathKind, pathText, listening, nCalls,
                   sArg, spc, listenOn, staleAtListen, hadStale, sErr, sRej,
                   nConnects, kpc, kTarget, kSrv, kErr, kRej, sockPath,
                   optPath, kPath, kOptPath>>

vars == <<serverVars, clientVars, transportVars>>

(* The first frame a peer may send.  kind:                                 *)
(*   "malformed"  bytes that are no JSON text                              *)
(*   "truncated"  a proper prefix of a JSON text                           *)
(*   "null"       the JSON text null (parses; reading a field of it throws)*)
(*   "valid"      a serialized HandshakeFrame                              *)
(*   "badprompt"  a JSON object whose prompt is not a string, which makes  *)
(*                repl.start throw when it first writes the prompt         *)
(* noStdout: "absent", "false" or "true".                                  *)
NoFrame == [kind |-> "none", noStdout |-> "absent"]
Frames ==
    [kind : {"malformed", "truncated", "null"}, noStdout : {"absent"}]
    \cup [kind : {"valid"}, noStdout : {"absent", "false", "true"}]
    \cup [kind : {"badprompt"}, noStdout : {"absent", "true"}]

JSONParses(f) == f.kind \notin {"malformed", "truncated"}
FieldReadThrows(f) == f.kind = "null"
NoStdout(f) == f.noStdout = "true"
ReplStartThrows(f) == f.kind = "badprompt"

(* What a REPL writes to its socket.                                       *)
ReplOut(k) == k

Registered == UNION {stdoutSessions[s] : s \in 1..nServe}

(* What vm.runInThisContext(code) does with a submitted line: it returns a *)
(* value, the parser rejects the code, or the code throws while running.   *)
(*   origin      "none" (no throw) | "parse" | "run"                       *)
(*   incomplete  the code is a proper prefix of a program (parse only)     *)
(*   isError     the thrown value is an instance of Error                  *)
(*   name, msg   err.name; the class of err.message: "eoi" (starts with    *)
(*               "Unexpected end of input"), "token" (starts with          *)
(*               "Unexpected token"), "other"                              *)
(*   stack       err.stack is a "string" or "undefined"                    *)
(*   falsy       the thrown value is null, undefined, 0, "" or false       *)
NoThrow ==
    [origin |-> "none", incomplete |-> FALSE, isError |-> FALSE, name |-> "",
     msg |-> "", stack |-> "na", falsy |-> FALSE]

ParseErrors ==
    {o \in [origin : {"parse"}, incomplete : BOOLEAN, isError : {TRUE},
            name : {"SyntaxError"}, msg : {"eoi", "token", "other"},
            stack : {"string"}, falsy : {FALSE}] :
        /\ o.msg = "eoi" => o.incomplete
        /\ o.msg = "token" => ~o.incomplete}

RunErrors ==
    {o \in [origin : {"run"}, incomplete : {FALSE}, isError : {TRUE},
            name : {"TypeError", "SyntaxError"}, msg : {"token", "other"},
            stack : {"string", "undefined"}, falsy : {FALSE}] :
        o.stack = "undefined" => (o.name = "TypeError" /\ o.msg = "other")}

RunThrows ==
    [origin : {"run"}, incomplete : {FALSE}, isError : {FALSE}, name : {""},
     msg : {""}, stack : {"na"}, falsy : BOOLEAN]

Outcomes == {NoThrow} \cup ParseErrors \cup RunErrors \cup RunThrows

NoEval ==
    [conn |-> 0, out |-> NoThrow, cb |-> "na", sock |-> "none",
     repl |-> "undef", reg |-> FALSE, reg2 |-> FALSE, seen |-> "undef",
     was |-> [val |-> "undef", by |-> -1],
     code |-> <<>>, tried |-> FALSE, ran |-> <<>>]

(* The versions of the host runtime, process.version being                 *)
(* "v<major>.<minor>.<patch>", and the one the host runs on when the       *)
(* version is not what is looked at.                                       *)
Versions ==
    {[major |-> ma, minor |-> mi] : ma \in {6, 7, 8}, mi \in {0, 5, 6, 10}}

HostVersion == [major |-> 10, minor |-> 15]

(* The number of digits of a minor (below 100), and the powers of ten.     *)
Digits(n) == IF n < 10 THEN 1 ELSE 2

RECURSIVE Pow10(_)
Pow10(d) == IF d = 0 THEN 1 ELSE 10 * Pow10(d - 1)

(* parseFloat(process.version.slice(1)) >= 7.6: parseFloat reads           *)
(* "<major>.<minor>" and stops at the second dot, so the digits of the     *)
(* minor are the decimals of the number it returns.  With d such digits,   *)
(* both sides of the comparison are multiplied by 10^(d+1).                *)
AllowAwait(v) ==
    LET d == Digits(v.minor)
    IN  v.major * Pow10(d + 1) + v.minor * 10 >= 76 * Pow10(d)

(* The lines: code without "await" and code with it.                       *)
PlainCode == <<"x">>
AwaitCode == <<"await", " ", "p">>
Codes == {PlainCode, AwaitCode}

(* processTopLevelAwait(code): null (here the empty string, as falsy as    *)
(* null is) for code without "await", the code wrapped in an async         *)
(* function otherwise.                                                     *)
ProcessTopLevelAwait(code) ==
    IF \E i \in 1..Len(code) : code[i] = "await"
    THEN <<"(async () => { return (">> \o code \o <<") })()">>
    ELSE <<>>

(* code = AllowAwait ? (processTopLevelAwait(code) || code) : code         *)
Rewritten(v, code) ==
    IF AllowAwait(v)
    THEN IF ProcessTopLevelAwait(code) # <<>>
         THEN ProcessTopLevelAwait(code)
         ELSE code
    ELSE code

(* The values of the binding; "undef": it was never assigned.              *)
Values == {"u", "v"}

NoRead == [seen |-> "na", was |-> [val |-> "na", by |-> -1]]

ServerStartOn(v) ==
    /\ nodeVersion = v
    /\ nServe = 0
    /\ connSrv = [c \in Conns |-> 0]
    /\ sockState = [c \in Conns |-> "none"]
    /\ hsDone = [c \in Conns |-> FALSE]
    /\ frame = [c \in Conns |-> NoFrame]
    /\ replState = [c \in Conns |-> "undef"]
    /\ nRepl = [c \in Conns |-> 0]
    /\ nParse = [c \in Conns |-> 0]
    /\ stdoutSessions = [s \in Servers |-> {}]
    /\ termLog = <<>>
    /\ sockCalls = [c \in Conns |-> <<>>]
    /\ sockOut = [c \in Conns |-> <<>>]
    /\ nWrites = 0
    /\ regAtWrite = <<>>
    /\ regAtHs = [c \in Conns |-> "na"]
    /\ wrapDepth = 0
    /\ sockErrs = [c \in Conns |-> <<>>]
    /\ escaped = {}
    /\ nEval = 0
    /\ lastEval = NoEval
    /\ retLog = <<>>
    /\ nStderr = 0
    /\ regAtStderr = <<>>
    /\ sockStderr = [c \in Conns |-> <<>>]
    /\ binding = "undef"
    /\ assigned = [val |-> "undef", by |-> -1]
    /\ hostSeen = NoRead

ServerStart == ServerStartOn(HostVersion)

(* process.stdout.write = (...args) => ...: the function installed before  *)
(* is kept as _write and a new interceptor is installed around it.         *)
OnServeWrap == wrapDepth' = wrapDepth + 1

(* serve(): wraps process.stdout.write once more and creates a server with *)
(* a fresh, empty Set.  (The call as a whole, its listen succeeding.)      *)
Serve ==
    /\ nServe < MaxServe
    /\ nServe' = nServe + 1
    /\ OnServeWrap
    /\ UNCHANGED <<connSrv, sockState, hsDone, frame, replState, nRepl, nParse,
                   stdoutSessions, termLog, sockCalls, sockOut, nWrites,
                   regAtWrite, regAtHs>>
    /\ UNCHANGED <<sockErrs, escaped, nEval, lastEval>>
    /\ UNCHANGED hostVars
    /\ UNCHANGED clientVars
    /\ UNCHANGED transportVars

(* net.createServer's connection callback: listeners are attached.        *)
Accept(c, s) ==
    /\ s \in 1..nServe
    /\ sockState[c] = "none"
    /\ sockState' = [sockState EXCEPT ![c] = "open"]
    /\ connSrv' = [connSrv EXCEPT ![c] = s]
    /\ UNCHANGED <<nServe, hsDone, frame, replState, nRepl, nParse, stdoutSessions, termLog, sockCalls, sockOut, nWrites,
                   regAtWrite, regAtHs>>
    /\ UNCHANGED <<wrapDepth, sockErrs, escaped, nEval, lastEval>>
    /\ UNCHANGED hostVars
    /\ UNCHANGED clientVars
    /\ UNCHANGED transportVars

(* socket.destroy(): no effect on a socket already destroyed.              *)
Destroyed(st) == IF st = "open" THEN "destroyed" ELSE st

(* The replServer "exit" handler: !connOpts.noStdout &&                    *)
(* stdoutSessions.delete(socket); socket.destroy().                        *)
(* (Variant: the handler never deletes from the Set.)                      *)
ExitDeregistersNever(f) == FALSE

ExitDeregisters(f) == ~NoStdout(f)

(* (Variant: the exit handler empties the Set.)                            *)
OnReplExitClearsAll(c) ==
    /\ stdoutSessions' = [stdoutSessions EXCEPT ![connSrv[c]] = {}]
    /\ sockState' = [sockState EXCEPT ![c] = Destroyed(@)]

OnReplExit(c) ==
    /\ stdoutSessions' =
          IF ExitDeregisters(frame[c])
          THEN [stdoutSessions EXCEPT ![connSrv[c]] = @ \ {c}]
          ELSE stdoutSessions
    /\ sockState' = [sockState EXCEPT ![c] = Destroyed(@)]

(* The catch block of the handshake: socket.destroy(), nothing else.       *)
(* (Variant: a catch block that leaves the socket open.)                   *)
OnHandshakeErrorIgnore(c) == sockState' = sockState

OnHandshakeError(c) == sockState' = [sockState EXCEPT ![c] = Destroyed(@)]

(* What the handshake does with the Set for frame f.                       *)
(* (Variant: registration that ignores noStdout.)                          *)
HandshakeRegistersAlways(f) == TRUE

HandshakeRegisters(f) == ~NoStdout(f)

(* The once("data") handler: the HANDSHAKE.                                *)
OnFirstData(c, f) ==
    LET s == connSrv[c]
        added == IF HandshakeRegisters(f)
                 THEN [stdoutSessions EXCEPT ![s] = @ \cup {c}]
                 ELSE stdoutSessions
    IN
    /\ hsDone' = [hsDone EXCEPT ![c] = TRUE]
    /\ frame' = [frame EXCEPT ![c] = f]
    /\ nParse' = [nParse EXCEPT ![c] = @ + 1]
    /\ IF ~JSONParses(f) \/ FieldReadThrows(f)
       THEN \* JSON.parse or connOpts.noStdout threw
            /\ OnHandshakeError(c)
            /\ stdoutSessions' = stdoutSessions
            /\ UNCHANGED <<replState, nRepl, sockOut>>
       ELSE IF ReplStartThrows(f)
       THEN \* registered, then repl.start threw
            /\ OnHandshakeError(c)
            /\ stdoutSessions' = added
            /\ UNCHANGED <<replState, nRepl, sockOut>>
       ELSE \* registered unless noStdout, REPL started, its prompt written
            /\ stdoutSessions' = added
            /\ replState' = [replState EXCEPT ![c] = "running"]
            /\ nRepl' = [nRepl EXCEPT ![c] = @ + 1]
            /\ sockOut' = [sockOut EXCEPT ![c] = Append(@, ReplOut("prompt"))]
            /\ UNCHANGED sockState

FirstData(c, f) ==
    /\ sockState[c] = "open"
    /\ ~hsDone[c]
    /\ OnFirstData(c, f)
    /\ regAtHs' = [regAtHs EXCEPT ![c] =
          IF c \in stdoutSessions'[connSrv[c]] THEN "in" ELSE "out"]
    /\ UNCHANGED <<nServe, connSrv, termLog, sockCalls, nWrites,
                   regAtWrite>>
    /\ UNCHANGED <<wrapDepth, sockErrs, escaped, nEval, lastEval>>
    /\ UNCHANGED hostVars
    /\ UNCHANGED clientVars
    /\ UNCHANGED transportVars

(* A later frame is input of the REPL (the handshake listener is gone).   *)
(* On the line ".exit", or when the peer ends its side (the REPL's input   *)
(* ends), the REPL closes and emits "exit".                                *)
ReplExits(c) ==
    /\ sockState[c] = "open"
    /\ replState[c] = "running"
    /\ replState' = [replState EXCEPT ![c] = "closed"]
    /\ OnReplExit(c)
    /\ UNCHANGED <<nServe, connSrv, hsDone, frame, nRepl, nParse, termLog, sockCalls, sockOut, nWrites, regAtWrite, regAtHs>>
    /\ UNCHANGED <<wrapDepth, sockErrs, escaped, nEval, lastEval>>
    /\ UNCHANGED hostVars
    /\ UNCHANGED clientVars
    /\ UNCHANGED transportVars

(* isRecoverableError(err).                                                *)
IsRecoverableError(o) ==
    o.isError /\ o.name = "SyntaxError" /\ o.msg \in {"eoi", "token"}

(* The eval function of the REPL: what its callback is called with.        *)
(*   "result"       callback(null, value), and callback(err, void 0) with  *)
(*                  a falsy err, which the REPL takes as a result          *)
(*   "recoverable"  callback(new repl.Recoverable(err), void 0)            *)
(*   "error"        callback(err, void 0)                                  *)
(*   "none"         the callback is not called: stack.split throws in the  *)
(*                  catch block and the promise of eval rejects            *)
Callback(o) ==
    IF o.origin = "none" THEN "result"
    ELSE IF IsRecoverableError(o) THEN "recoverable"
    ELSE IF o.isError /\ o.stack # "string" THEN "none"
    ELSE IF o.falsy THEN "result"
    ELSE "error"

(* vm.runInThisContext(code) with useGlobal: true: the code of a line runs *)
(* against the global context of the process, so what it reads of a        *)
(* binding is the binding of the process.                                  *)
(* (Variant: every line runs in a context of its own.)                     *)
SeenByLineInNewContext == "undef"

SeenByLine == binding

(* The line assigns a (one of Values) to the binding, or "none": it only   *)
(* reads it.  Code the parser rejects never runs and assigns nothing.      *)
Assigns(o, a) == a # "none" /\ o.origin # "parse"

(* A line reaches the REPL of c and is evaluated; the REPL writes what the *)
(* callback got (a result or an error and the prompt, or the continuation  *)
(* prompt) to the socket.  o is what running the code that is run, the     *)
(* line or what it was rewritten to, comes to.                             *)
EvalLine(c, o, a, code) ==
    /\ sockState[c] = "open"
    /\ replState[c] = "running"
    /\ nEval < MaxEvals
    /\ nEval' = nEval + 1
    /\ binding' = IF Assigns(o, a) THEN a ELSE binding
    /\ assigned' = IF Assigns(o, a) THEN [val |-> a, by |-> c] ELSE assigned
    /\ UNCHANGED <<retLog, nStderr, regAtStderr, sockStderr, hostSeen>>
    /\ sockOut' = [sockOut EXCEPT ![c] =
          IF Callback(o) = "none" THEN @ ELSE Append(@, ReplOut(Callback(o)))]
    /\ UNCHANGED <<nServe, connSrv, sockState, hsDone, frame, replState, nRepl,
                   nParse, stdoutSessions, termLog, sockCalls, nWrites,
                   regAtWrite, regAtHs, wrapDepth, sockErrs, escaped>>
    /\ lastEval' =
          [conn |-> c, out |-> o, cb |-> Callback(o), sock |-> sockState'[c],
           repl |-> replState'[c], reg |-> c \in Registered,
           reg2 |-> c \in stdoutSessions'[connSrv[c]],
           seen |-> SeenByLine, was |-> assigned,
           code |-> code, tried |-> AllowAwait(nodeVersion),
           ran |-> Rewritten(nodeVersion, code)]
    /\ UNCHANGED nodeVersion
    /\ UNCHANGED clientVars
    /\ UNCHANGED transportVars

(* replServer && replServer.close(): the REPL is closed when there is one  *)
(* that is not closed yet.                                                 *)
(* (Variant: the close handler leaves the REPL alone.)                     *)
ClosesReplNever(st) == FALSE

ClosesRepl(st) == st = "running"

(* The socket "close" handler: replServer && replServer.close(), and the   *)
(* REPL, closing, emits "exit".                                            *)
SocketClose(c) ==
    /\ sockState[c] = "destroyed"
    /\ IF ClosesRepl(replState[c])
       THEN /\ replState' = [replState EXCEPT ![c] = "closed"]
            /\ stdoutSessions' =
                  IF ExitDeregisters(frame[c])
                  THEN [stdoutSessions EXCEPT ![connSrv[c]] = @ \ {c}]
                  ELSE stdoutSessions
       ELSE UNCHANGED <<replState, stdoutSessions>>
    /\ sockState' = [sockState EXCEPT ![c] = "closed"]
    /\ UNCHANGED <<nServe, connSrv, hsDone, frame, nRepl, nParse, termLog, sockCalls, sockOut, nWrites, regAtWrite, regAtHs>>
    /\ UNCHANGED <<wrapDepth, sockErrs, escaped, nEval, lastEval>>
    /\ UNCHANGED hostVars
    /\ UNCHANGED clientVars
    /\ UNCHANGED transportVars

(* The wrapped process.stdout.write.  Each serve() call wrapped the write  *)
(* that was installed before it, so the innermost wrapper calls the        *)
(* original write and every wrapper then writes to the sockets of its Set. *)
TermCallsPerWrite == 1

(* (Variant of the loop: it stops after the first socket.)                 *)
FanoutFirstOnly ==
    IF Registered = {} THEN {} ELSE {CHOOSE c \in Registered : TRUE}

(* (Variant of the loop: it writes to the socket of every session.)        *)
FanoutEverySession == {c \in Conns : replState[c] = "running"}

FanoutTargets == Registered

(* socket.write on a socket that is destroyed or whose peer is gone does   *)
(* not throw: the failure is reported on the socket ("error" event, write  *)
(* callback).  The loop of the interceptor has no try/catch, so a write    *)
(* that threw would end the loop and escape to the caller of stdout.write. *)
(* (Variant: a write to a dead socket throws.)                             *)
SocketWriteThrowsWhenDead(st) == st # "open"

SocketWriteThrows(st) == FALSE

SocketWriteFails(st) == st # "open"

(* The sockets the loop reaches.  A Set iterates in insertion order; the   *)
(* order matters only when a write throws, and is taken as the order of    *)
(* the connection numbers then.                                            *)
Reached ==
    LET throwers == {c \in FanoutTargets : SocketWriteThrows(sockState[c])}
    IN  {c \in FanoutTargets : \A t \in throwers : c <= t}

OnStdoutWrite(w) ==
    /\ termLog' = termLog \o [i \in 1..TermCallsPerWrite |-> w]
    /\ sockCalls' = [c \in Conns |->
          IF c \in Reached THEN Append(sockCalls[c], w) ELSE sockCalls[c]]
    /\ sockErrs' = [c \in Conns |->
          IF c \in Reached /\ SocketWriteFails(sockState[c])
          THEN Append(sockErrs[c], w) ELSE sockErrs[c]]
    /\ escaped' =
          IF \E c \in FanoutTargets : SocketWriteThrows(sockState[c])
          THEN escaped \cup {w} ELSE escaped

(* let res = _write.apply(process.stdout, args); ...; return res: what the *)
(* caller gets is what the write installed before returned (false: the     *)
(* stream asks the caller to wait for "drain").  What socket.write         *)
(* returns in the loop is dropped; full: the sockets whose write returned  *)
(* false.                                                                  *)
(* (Variant: the interceptor also reports a socket that is full.)          *)
WriteResultWithSockets(r, full) == r /\ (Reached \cap full = {})

WriteResult(r, full) == r

StdoutWrite(r, full) ==
    /\ nWrites < MaxWrites
    /\ nWrites' = nWrites + 1
    /\ OnStdoutWrite(nWrites + 1)
    /\ regAtWrite' = Append(regAtWrite, Registered)
    /\ retLog' = Append(retLog, [orig |-> r, ret |-> WriteResult(r, full),
                                 full |-> Reached \cap full # {}])
    /\ UNCHANGED <<nStderr, regAtStderr, sockStderr, binding, assigned,
                   hostSeen>>
    /\ UNCHANGED <<nServe, connSrv, sockState, hsDone, frame, replState, nRepl,
                   nParse, stdoutSessions, sockOut, regAtHs>>
    /\ UNCHANGED <<wrapDepth, nEval, lastEval>>
    /\ UNCHANGED nodeVersion
    /\ UNCHANGED clientVars
    /\ UNCHANGED transportVars

(* The socket "error" handler: if (!isSocketResetError(err))                *)
(* console.log(err).  An error of the reset class is dropped; any other    *)
(* is logged, and console.log is a write to process.stdout.                *)
(* (Variant: the handler logs every error.)                                *)
LogsErrorAlways(reset) == TRUE

LogsError(reset) == ~reset

OnSocketError(reset) ==
    IF LogsError(reset)
    THEN /\ nWrites < MaxWrites
         /\ nWrites' = nWrites + 1
         /\ OnStdoutWrite(nWrites + 1)
         /\ regAtWrite' = Append(regAtWrite, Registered)
         /\ retLog' = Append(retLog, [orig |-> TRUE,
                                      ret |-> WriteResult(TRUE, {}),
                                      full |-> FALSE])
    ELSE UNCHANGED <<nWrites, termLog, sockCalls, sockErrs, escaped,
                     regAtWrite, retLog>>

(* The connection is lost: the peer is gone (an error of the reset class,  *)
(* or the peer closing before any REPL exists).  The "error" handler runs  *)
(* and returns; the socket is destroyed and "close" follows.               *)
SocketLost(c) ==
    /\ sockState[c] = "open"
    /\ sockState' = [sockState EXCEPT ![c] = "destroyed"]
    /\ OnSocketError(TRUE)
    /\ UNCHANGED <<nServe, connSrv, hsDone, frame, replState, nRepl, nParse,
                   stdoutSessions, sockOut, regAtHs>>
    /\ UNCHANGED <<wrapDepth, nEval, lastEval>>
    /\ UNCHANGED <<nStderr, regAtStderr, sockStderr, binding, assigned,
                   hostSeen>>
    /\ UNCHANGED nodeVersion
    /\ UNCHANGED clientVars
    /\ UNCHANGED transportVars

(* The socket fails with an error that is not of the reset class.          *)
SocketError(c) ==
    /\ sockState[c] = "open"
    /\ sockState' = [sockState EXCEPT ![c] = "destroyed"]
    /\ OnSocketError(FALSE)
    /\ UNCHANGED <<nServe, connSrv, hsDone, frame, replState, nRepl, nParse,
                   stdoutSessions, sockOut, regAtHs>>
    /\ UNCHANGED <<wrapDepth, nEval, lastEval>>
    /\ UNCHANGED <<nStderr, regAtStderr, sockStderr, binding, assigned,
                   hostSeen>>
    /\ UNCHANGED nodeVersion
    /\ UNCHANGED clientVars
    /\ UNCHANGED transportVars

(* The host writes to process.stderr.  serve() replaces the write of       *)
(* process.stdout only: the write of process.stderr is the original one,   *)
(* which passes the bytes to the terminal and calls no socket.             *)
OnStderrWrite(e) == sockStderr' = sockStderr

StderrWrite ==
    /\ nServe > 0
    /\ nStderr < MaxWrites
    /\ nStderr' = nStderr + 1
    /\ OnStderrWrite(nStderr + 1)
    /\ regAtStderr' = Append(regAtStderr, Registered)
    /\ UNCHANGED <<nServe, connSrv, sockState, hsDone, frame, replState, nRepl,
                   nParse, stdoutSessions, termLog, sockCalls, sockOut,
                   nWrites, regAtWrite, regAtHs, wrapDepth, sockErrs, escaped,
                   nEval, lastEval>>
    /\ UNCHANGED <<retLog, binding, assigned, hostSeen>>
    /\ UNCHANGED nodeVersion
    /\ UNCHANGED clientVars
    /\ UNCHANGED transportVars

(* A statement of the host program assigns v to the binding.               *)
HostAssign(v) ==
    /\ binding' = v
    /\ assigned' = [val |-> v, by |-> 0]
    /\ UNCHANGED <<nServe, connSrv, sockState, hsDone, frame, replState, nRepl,
                   nParse, stdoutSessions, termLog, sockCalls, sockOut,
                   nWrites, regAtWrite, regAtHs, wrapDepth, sockErrs, escaped,
                   nEval, lastEval>>
    /\ UNCHANGED <<retLog, nStderr, regAtStderr, sockStderr, hostSeen>>
    /\ UNCHANGED nodeVersion
    /\ UNCHANGED clientVars
    /\ UNCHANGED transportVars

(* A statement of the host program reads the binding.                      *)
HostRead ==
    /\ hostSeen' = [seen |-> binding, was |-> assigned]
    /\ UNCHANGED <<nServe, connSrv, sockState, hsDone, frame, replState, nRepl,
                   nParse, stdoutSessions, termLog, sockCalls, sockOut,
                   nWrites, regAtWrite, regAtHs, wrapDepth, sockErrs, escaped,
                   nEval, lastEval>>
    /\ UNCHANGED <<retLog, nStderr, regAtStderr, sockStderr, binding, assigned>>
    /\ UNCHANGED nodeVersion
    /\ UNCHANGED clientVars
    /\ UNCHANGED transportVars

(***************************************************************************)
(* ENDPOINT: how serve() comes to listen and connect() comes to connect.   *)
(* One serve() call and one connect() call are in progress at a time.      *)
(***************************************************************************)
MaxCalls == 2
MaxConnects == 1

Ports == {9, 10, 305}
NaN == -1

Digit == <<"0", "1", "2", "3", "4", "5", "6", "7", "8", "9">>
DigitChars == {Digit[i] : i \in 1..10}
DigitVal(ch) == CHOOSE d \in 0..9 : Digit[d + 1] = ch

(* String(port): the decimal digits of a non-negative integer.             *)
(* (Variant: only the last digit is written.)                              *)
PortTextLastDigit(n) == <<Digit[(n % 10) + 1]>>

RECURSIVE PortText(_)
PortText(n) ==
    IF n < 10 THEN <<Digit[n + 1]>>
    ELSE Append(PortText(n \div 10), Digit[(n % 10) + 1])

(* Number(text) for a text of decimal digits (the empty text gives 0), NaN *)
(* for a text with any other character.                                    *)
RECURSIVE DecValue(_)
DecValue(t) ==
    IF t = <<>> THEN 0
    ELSE DecValue(SubSeq(t, 1, Len(t) - 1)) * 10 + DigitVal(t[Len(t)])

ToNumber(t) ==
    IF \A i \in 1..Len(t) : t[i] \in DigitChars THEN DecValue(t) ELSE NaN

(* What a file left at the path by an earlier run may hold.                *)
StaleTexts == {<<"9">>, <<"x">>}

Endpoint(t, p) == [type |-> t, port |-> p]
NoEndpoint == Endpoint("none", 0)

(* resolveSockPath: the named pipe of the path on Windows, the path itself *)
(* elsewhere.                                                              *)
PathEndpoint ==
    IF platform = "win32" THEN Endpoint("pipe", 0) ELSE Endpoint("path", 0)

ServeArgs == {Endpoint("path", 0)} \cup {Endpoint("tcp", p) : p \in Ports}

serveVars == <<nCalls, sArg, spc, listenOn, staleAtListen, hadStale, sErr, sRej,
               sockPath, optPath>>
connectVars == <<nConnects, kpc, kTarget, kSrv, kErr, kRej, kPath, kOptPath>>

(* The paths given to serve() and connect(): a plain one, one that has the *)
(* prefix of the named pipes, and one that has all of the prefix but its   *)
(* last character.                                                         *)
PipePrefixLen == 9

PipePrefix == <<"\\", "\\", ".", "\\", "p", "i", "p", "e", "\\">>

NoPath == <<>>

SockPaths ==
    {<<"a">>, PipePrefix \o <<"a">>, SubSeq(PipePrefix, 1, PipePrefixLen - 1) \o <<"a">>}

(* path.slice(0, n)                                                        *)
SliceFromStart(str, n) == SubSeq(str, 1, IF Len(str) < n THEN Len(str) ELSE n)

(* resolveSockPath                                                         *)
(* (Variant: the prefix is added to every path on Windows.)                *)
ResolveSockPathAlways(plat, path) ==
    IF plat # "win32" THEN path ELSE PipePrefix \o path

ResolveSockPath(plat, path) ==
    IF plat # "win32" \/ SliceFromStart(path, PipePrefixLen) = PipePrefix
    THEN path
    ELSE PipePrefix \o path

TransportStartWith(plat, worker, kind, text, eps) ==
    /\ platform = plat
    /\ isWorker = worker
    /\ pathKind = kind
    /\ pathText = text
    /\ listening = eps
    /\ nCalls = 0
    /\ sArg = "none"
    /\ spc = "idle"
    /\ listenOn = NoEndpoint
    /\ staleAtListen = "na"
    /\ hadStale = FALSE
    /\ sErr = "none"
    /\ sRej = "none"
    /\ nConnects = 0
    /\ kpc = "idle"
    /\ kTarget = NoEndpoint
    /\ kSrv = -1
    /\ kErr = "none"
    /\ kRej = "none"
    /\ sockPath = NoPath
    /\ optPath = NoPath
    /\ kPath = NoPath
    /\ kOptPath = NoPath

(* No server listens yet.                                                  *)
TransportStart(plat, worker, kind, text) ==
    TransportStartWith(plat, worker, kind, text, {})

TransportIdle == TransportStart("posix", FALSE, "none", <<>>)

(* cluster.isWorker && os.platform() === "win32"                           *)
PortFileBranch == sArg = "path" /\ isWorker /\ platform = "win32"

(* reject(err) of the promise serve() returns.                             *)
ServeReject(e) == spc' = "rejected" /\ sErr' = e /\ sRej' = e

(* server.listen(options) with options.path resolved.                      *)
ListenOnPath(kind) ==
    /\ spc' = "listen"
    /\ optPath' = ResolveSockPath(platform, sockPath)
    /\ listenOn' = PathEndpoint
    /\ staleAtListen' = IF kind # "none" THEN "yes" ELSE "no"

(* serve(arg) up to its first await: the Set, the interceptor and the      *)
(* server are created; with a path fs.ensureDir is awaited, without one    *)
(* the executor calls server.listen(options) at once.                      *)
ServeCall(arg, path) ==
    /\ spc \in {"idle", "resolved", "rejected", "hung"}
    /\ nCalls < MaxCalls
    /\ arg.type = "path" <=> path # NoPath
    /\ sockPath' = path
    /\ optPath' = NoPath
    /\ nCalls' = nCalls + 1
    /\ OnServeWrap
    /\ sArg' = arg.type
    /\ hadStale' = (arg.type = "path" /\ pathKind # "none")
    /\ sErr' = "none"
    /\ sRej' = "none"
    /\ staleAtListen' = "na"
    /\ IF arg.type = "path"
       THEN spc' = "ensureDir" /\ listenOn' = NoEndpoint
       ELSE spc' = "listen" /\ listenOn' = arg
    /\ UNCHANGED <<platform, isWorker, pathKind, pathText, listening>>
    /\ UNCHANGED connectVars
    /\ UNCHANGED <<nServe, connSrv, sockState, hsDone, frame, replState, nRepl,
                   nParse, stdoutSessions, termLog, sockCalls, sockOut,
                   nWrites, regAtWrite, regAtHs, sockErrs, escaped, nEval,
                   lastEval>>
    /\ UNCHANGED hostVars
    /\ UNCHANGED clientVars

(* fs.ensureDir settles.  In a cluster worker on Windows the server        *)
(* listens on port 0 of 127.0.0.1; otherwise fs.pathExists is awaited.     *)
ServeEnsureDirDone(ok) ==
    /\ spc = "ensureDir"
    /\ IF ~ok
       THEN ServeReject("ensureDir") /\ UNCHANGED listenOn
       ELSE IF PortFileBranch
       THEN spc' = "listen" /\ listenOn' = Endpoint("tcp", 0)
                            /\ UNCHANGED <<sErr, sRej>>
       ELSE spc' = "pathExists" /\ UNCHANGED <<listenOn, sErr, sRej>>
    /\ UNCHANGED <<platform, isWorker, pathKind, pathText, listening, nCalls,
                   sArg, staleAtListen, hadStale, sockPath, optPath>>
    /\ UNCHANGED connectVars
    /\ UNCHANGED serverVars
    /\ UNCHANGED clientVars

(* fs.pathExists settles (it never fails): fs.unlink is awaited when the   *)
(* path exists, otherwise the server listens on the path.                  *)
(* (Variant: the server listens without unlinking.)                        *)
ServePathExistsNoUnlink ==
    /\ spc = "pathExists"
    /\ ListenOnPath(pathKind)
    /\ UNCHANGED <<platform, isWorker, pathKind, pathText, listening, nCalls,
                   sArg, hadStale, sErr, sRej, sockPath>>
    /\ UNCHANGED connectVars
    /\ UNCHANGED serverVars
    /\ UNCHANGED clientVars

ServePathExistsDone ==
    /\ spc = "pathExists"
    /\ IF pathKind # "none"
       THEN spc' = "unlink" /\ UNCHANGED <<listenOn, staleAtListen, optPath>>
       ELSE ListenOnPath(pathKind)
    /\ UNCHANGED <<platform, isWorker, pathKind, pathText, listening, nCalls,
                   sArg, hadStale, sErr, sRej, sockPath>>
    /\ UNCHANGED connectVars
    /\ UNCHANGED serverVars
    /\ UNCHANGED clientVars

(* fs.unlink settles.  It is awaited inside the async executor of the      *)
(* promise: when it fails the executor's own promise rejects, and neither  *)
(* resolve nor reject of the promise serve() returned is ever called.      *)
ServeUnlinkDone(ok) ==
    /\ spc = "unlink"
    /\ IF ok
       THEN /\ pathKind' = "none"
            /\ pathText' = <<>>
            /\ ListenOnPath("none")
            /\ UNCHANGED <<sErr, sRej>>
       ELSE /\ spc' = "hung"
            /\ sErr' = "unlink"
            /\ UNCHANGED <<pathKind, pathText, listenOn, staleAtListen, sRej,
                           optPath>>
    /\ UNCHANGED <<platform, isWorker, listening, nCalls, sArg, hadStale,
                   sockPath>>
    /\ UNCHANGED connectVars
    /\ UNCHANGED serverVars
    /\ UNCHANGED clientVars

(* The bind cannot succeed: a resource is at the path to bind, or the pipe *)
(* or the port is taken.                                                   *)
BindMustFail ==
    \/ listenOn.type = "path" /\ staleAtListen = "yes"
    \/ listenOn.type = "pipe" /\ listenOn \in listening
    \/ listenOn.type = "tcp" /\ listenOn.port # 0 /\ listenOn \in listening

(* The "listening" callback or the "error" event of server.listen.  p is   *)
(* the port the system assigns for port 0.  Listening on a path creates    *)
(* the socket file; in the port-file branch fs.writeFile is awaited next.  *)
ServeListenDone(ok, p) ==
    /\ spc = "listen"
    /\ ok => ~BindMustFail
    /\ IF listenOn = Endpoint("tcp", 0)
       THEN p \in Ports /\ Endpoint("tcp", p) \notin listening
       ELSE p = listenOn.port
    /\ IF ok
       THEN /\ listenOn' = Endpoint(listenOn.type, p)
            /\ listening' = listening \cup {listenOn'}
            /\ spc' = IF PortFileBranch THEN "writePort" ELSE "resolved"
            /\ IF listenOn.type = "path"
               THEN pathKind' = "socket" /\ pathText' = <<>>
               ELSE UNCHANGED <<pathKind, pathText>>
            /\ UNCHANGED <<sErr, sRej>>
       ELSE /\ ServeReject("bind")
            /\ UNCHANGED <<listenOn, listening, pathKind, pathText>>
    /\ UNCHANGED <<platform, isWorker, nCalls, sArg, staleAtListen, hadStale,
                   sockPath, optPath>>
    /\ UNCHANGED connectVars
    /\ UNCHANGED serverVars
    /\ UNCHANGED clientVars

(* fs.writeFile(sockPath, String(port)) settles.                           *)
ServeWritePortDone(ok) ==
    /\ spc = "writePort"
    /\ IF ok
       THEN /\ pathKind' = "file"
            /\ pathText' = PortText(listenOn.port)
            /\ spc' = "resolved"
            /\ UNCHANGED <<sErr, sRej>>
       ELSE ServeReject("writeFile") /\ UNCHANGED <<pathKind, pathText>>
    /\ UNCHANGED <<platform, isWorker, listening, nCalls, sArg, listenOn,
                   staleAtListen, hadStale, sockPath, optPath>>
    /\ UNCHANGED connectVars
    /\ UNCHANGED serverVars
    /\ UNCHANGED clientVars

(* reject(err) of the promise of the socket in connect().                  *)
ConnectReject(e) == kpc' = "rejected" /\ kErr' = e /\ kRej' = e

(* A serve() call of the port-file branch has resolved.                    *)
PortFileServed == PortFileBranch /\ spc = "resolved"

(* connect(arg) up to its first await: a new socket is created; on         *)
(* Windows, with a path, fs.pathExists is awaited; otherwise               *)
(* socket.connect is called at once.  A call that resolved gave the        *)
(* process its connection; it is a call that failed that is made again.    *)
ConnectCall(arg, path) ==
    /\ kpc \in {"idle", "rejected"}
    /\ nConnects < MaxConnects
    /\ arg.type = "path" <=> path # NoPath
    /\ kPath' = path
    /\ kOptPath' = IF arg.type = "path" /\ platform # "win32"
                   THEN ResolveSockPath(platform, path) ELSE NoPath
    /\ sent' = <<>>
    /\ nConnects' = nConnects + 1
    /\ kErr' = "none"
    /\ kRej' = "none"
    /\ kSrv' = -1
    /\ IF arg.type = "path" /\ platform = "win32"
       THEN kpc' = "pathExists" /\ kTarget' = NoEndpoint
       ELSE /\ kpc' = "connecting"
            /\ kTarget' = IF arg.type = "path" THEN PathEndpoint ELSE arg
    /\ UNCHANGED <<platform, isWorker, pathKind, pathText, listening>>
    /\ UNCHANGED serveVars
    /\ UNCHANGED serverVars
    /\ UNCHANGED clientLoopVars

(* fs.pathExists settles: the file is read when the path exists, otherwise *)
(* the socket connects to the named pipe.                                  *)
ConnectPathExistsDone ==
    /\ kpc = "pathExists"
    /\ IF pathKind # "none"
       THEN kpc' = "readFile" /\ UNCHANGED <<kTarget, kOptPath>>
       ELSE /\ kpc' = "connecting"
            /\ kTarget' = PathEndpoint
            /\ kOptPath' = ResolveSockPath(platform, kPath)
    /\ UNCHANGED <<platform, isWorker, pathKind, pathText, listening,
                   nConnects, kSrv, kErr, kRej, kPath>>
    /\ UNCHANGED serveVars
    /\ UNCHANGED serverVars
    /\ UNCHANGED clientVars

(* fs.readFile settles: Number(text) is the port to connect to on          *)
(* 127.0.0.1; socket.connect throws for a port that is not a number, and   *)
(* the catch block rejects.                                                *)
ConnectReadFileDone(ok) ==
    /\ kpc = "readFile"
    /\ ok => pathKind = "file"
    /\ IF ~ok
       THEN ConnectReject("readFile") /\ UNCHANGED <<kTarget, kSrv>>
       ELSE IF ToNumber(pathText) = NaN
       THEN ConnectReject("badPort") /\ UNCHANGED <<kTarget, kSrv>>
       ELSE /\ kpc' = "connecting"
            /\ kTarget' = Endpoint("tcp", ToNumber(pathText))
            /\ kSrv' = IF PortFileServed THEN listenOn.port ELSE -1
            /\ UNCHANGED <<kErr, kRej>>
    /\ UNCHANGED <<platform, isWorker, pathKind, pathText, listening,
                   nConnects, kPath, kOptPath>>
    /\ UNCHANGED serveVars
    /\ UNCHANGED serverVars
    /\ UNCHANGED clientVars

(* The prompt of readline and of the REPL when none is given.              *)
DefaultPrompt == <<">", " ">>

(* options.prompt is not given (undefined): no string is this sequence.    *)
NoPrompt == <<"undefined">>

(* JSON.stringify(pick(options, ["prompt", "noStdout"])) for options that  *)
(* give no noStdout: the text of an object with the prompt, when given.    *)
Quoted(str) == <<"\"">> \o str \o <<"\"">>

Stringify(popt) ==
    IF popt = NoPrompt
    THEN <<"{", "}">>
    ELSE <<"{">> \o Quoted(<<"p", "r", "o", "m", "p", "t">>) \o <<":">>
               \o Quoted(popt) \o <<"}">>

(* connOpts = JSON.parse(buf.toString()) and connOpts.prompt, of the text  *)
(* of such an object.                                                      *)
ParsedPrompt(text) ==
    IF text = <<"{", "}">> THEN NoPrompt ELSE SubSeq(text, 12, Len(text) - 2)

(* repl.start({ prompt: connOpts.prompt, ... }): the REPL takes "> " when  *)
(* the prompt is undefined and the prompt given, the empty string          *)
(* included, otherwise.                                                    *)
ReplPrompt(text) ==
    IF ParsedPrompt(text) = NoPrompt THEN DefaultPrompt ELSE ParsedPrompt(text)

(* The once("connect") listener: socket.write(JSON.stringify(data), ...).  *)
(* (Variant: nothing is written on "connect".)                             *)
OnConnectNoFrame == sent' = sent

OnConnect == sent' = Append(sent, Stringify(optPrompt))

(* The "connect" or the "error" event of the socket; on "connect" the      *)
(* handshake frame is written.                                             *)
ConnectDone(ok) ==
    /\ kpc = "connecting"
    /\ ok => kTarget \in listening
    /\ IF ok
       THEN kpc' = "writing" /\ OnConnect /\ UNCHANGED <<kErr, kRej>>
       ELSE ConnectReject("connect") /\ UNCHANGED sent
    /\ UNCHANGED <<platform, isWorker, pathKind, pathText, listening,
                   nConnects, kTarget, kSrv, kPath, kOptPath>>
    /\ UNCHANGED serveVars
    /\ UNCHANGED serverVars
    /\ UNCHANGED clientLoopVars

(* The callback of the handshake write: err ? reject(err) : resolve(socket)*)
ConnectWriteDone(ok) ==
    /\ kpc = "writing"
    /\ IF ok
       THEN kpc' = "resolved" /\ UNCHANGED <<kErr, kRej>>
       ELSE ConnectReject("write")
    /\ UNCHANGED <<platform, isWorker, pathKind, pathText, listening,
                   nConnects, kTarget, kSrv, kPath, kOptPath>>
    /\ UNCHANGED serveVars
    /\ UNCHANGED serverVars
    /\ UNCHANGED clientVars

(***************************************************************************)
(* CLIENT: connect(), from the point where the handshake frame has been    *)
(* written and the promise of the socket has resolved.                     *)
(*                                                                         *)
(* Strings are sequences of one-character strings.                         *)
(***************************************************************************)
MaxFileLen == 2
MaxLines == 2
MaxInts == 3
MaxChunks == 2
MaxRuns == 2

NL == "\n"
ContPrompt == <<".", ".", ".", " ">>
BreakCmd == <<".", "b", "r", "e", "a", "k", NL>>
DefaultHistorySize == 100
PrefixLen == 5

RECURSIVE Reverse(_)
Reverse(s) == IF s = <<>> THEN <<>> ELSE Append(Reverse(Tail(s)), Head(s))

(* String.prototype.split("\n"): never an empty array.                     *)
RECURSIVE Split(_)
Split(s) ==
    IF \A i \in 1..Len(s) : s[i] # NL
    THEN <<s>>
    ELSE LET k == CHOOSE i \in 1..Len(s) :
                      s[i] = NL /\ \A j \in 1..(i - 1) : s[j] # NL
         IN <<SubSeq(s, 1, k - 1)>> \o Split(SubSeq(s, k + 1, Len(s)))

(* Array.prototype.join("\n").                                             *)
RECURSIVE Join(_)
Join(lines) ==
    IF lines = <<>> THEN <<>>
    ELSE IF Len(lines) = 1 THEN lines[1]
    ELSE lines[1] \o <<NL>> \o Join(Tail(lines))

(* Buffer.prototype.slice(0, n) for n >= 0, and slice(0, -n) for n > 0.    *)
SliceTo(buf, n) == SubSeq(buf, 1, IF n < Len(buf) THEN n ELSE Len(buf))
SliceOffEnd(buf, n) == SubSeq(buf, 1, IF n < Len(buf) THEN Len(buf) - n ELSE 0)

Remove(seq, i) == SubSeq(seq, 1, i - 1) \o SubSeq(seq, i + 1, Len(seq))

(* readline's history of a terminal interface, newest entry first: an      *)
(* empty line and a repeat of the newest entry are not recorded, an older  *)
(* duplicate is removed when removeHistoryDuplicates is set, and one entry *)
(* is dropped from the old end when the size is exceeded.                  *)
AddHistory(hist, line, size, dedupe) ==
    IF line = <<>> \/ size = 0 THEN hist
    ELSE IF hist # <<>> /\ hist[1] = line THEN hist
    ELSE LET dups == {i \in 1..Len(hist) : hist[i] = line}
             kept == IF dedupe /\ dups # {}
                     THEN Remove(hist, CHOOSE i \in dups : \A j \in dups : i <= j)
                     ELSE hist
             added == <<line>> \o kept
         IN IF Len(added) > size THEN SubSeq(added, 1, Len(added) - 1) ELSE added


FileChars == {"a", NL}
RECURSIVE StringsUpTo(_, _)
StringsUpTo(chars, n) ==
    IF n = 0 THEN {<<>>}
    ELSE LET shorter == StringsUpTo(chars, n - 1)
         IN shorter \cup {Append(s, ch) : s \in shorter, ch \in chars}

FileContents == StringsUpTo(FileChars, MaxFileLen)
LineInputs == {<<>>, <<"a">>, <<"b">>}

(* options.prompt || "> " and options.historySize || 100                   *)
ClientPrompt(opt) == IF opt \in {NoPrompt, <<>>} THEN DefaultPrompt ELSE opt
HistorySize(opt) == IF opt = 0 THEN DefaultHistorySize ELSE opt

Chunks(P) == {ContPrompt, P, P \o P, <<"x">>, ContPrompt \o <<"x">>}

ClientStartAt(pc, exists, content, dir, term, size, rm, popt) ==
    /\ cpc = pc
    /\ csock = "open"
    /\ hadError = FALSE
    /\ canExit = FALSE
    /\ optPrompt = popt
    /\ prompt = IF pc = "connect" THEN <<>> ELSE ClientPrompt(popt)
    /\ terminal = term
    /\ optHistorySize = size
    /\ rmDup = rm
    /\ historyDefined = term
    /\ inputHistory = <<>>
    /\ fileExists = exists
    /\ fileContent = content
    /\ dirExists = dir
    /\ writeBuf = <<>>
    /\ sent = <<>>
    /\ rendered = <<>>
    /\ chunk = <<>>
    /\ nChunks = 0
    /\ exitCode = -1
    /\ fileAtStart = [exists |-> exists, content |-> content]
    /\ submitted = <<>>
    /\ lateLine = FALSE
    /\ sigLog = <<>>
    /\ pauseLog = <<>>
    /\ nRendered = 0
    /\ nRuns = 1

(* The client right after the promise of the socket has resolved, the      *)
(* defaults of the options are set, readline is created and fs.readFile of *)
(* the history file is awaited.                                            *)
ClientStart(exists, content, dir, term, size, rm, popt) ==
    ClientStartAt("loading", exists, content, dir, term, size, rm, popt)

(* The client while connect() awaits the promise of the socket.            *)
ClientConnecting(exists, content, dir, term, size, rm, popt) ==
    ClientStartAt("connect", exists, content, dir, term, size, rm, popt)

(* The promise of the socket has resolved: options.prompt gets its         *)
(* default, readline is created with that prompt, the "line" and "data"    *)
(* listeners are attached and fs.readFile is awaited.                      *)
ClientSetup ==
    /\ cpc = "connect"
    /\ kpc = "resolved"
    /\ cpc' = "loading"
    /\ prompt' = ClientPrompt(optPrompt)
    /\ UNCHANGED <<csock, hadError, canExit, optPrompt, terminal,
                   optHistorySize, rmDup, historyDefined, inputHistory,
                   fileExists, fileContent, dirExists, writeBuf, sent, rendered,
                   chunk, nChunks, exitCode, fileAtStart, submitted, lateLine,
                   sigLog, pauseLog, nRendered, nRuns>>
    /\ UNCHANGED serverVars
    /\ UNCHANGED transportVars

(* The history file is missing (its directory may be missing too) or holds *)
(* any content.                                                            *)
InitFiles(exists, content, dir) ==
    \/ exists /\ dir /\ content \in FileContents
    \/ ~exists /\ content = <<>> /\ dir \in BOOLEAN

(* Entries of sigLog.                                                      *)
LogEntry(k, brk) ==
    [kind |-> k, armed |-> canExit, ml |-> (prompt = ContPrompt), sock |-> csock,
     armed2 |-> canExit', sock2 |-> csock', brk |-> brk]
NumInts(log) == Cardinality({i \in 1..Len(log) : log[i].kind = "int"})

(* The "line" handler.                                                     *)
(* (Variant: the armed flag is not reset.)                                 *)
OnLineKeepArmed(line) ==
    /\ canExit' = canExit
    /\ sent' = IF csock = "open" THEN Append(sent, line \o <<NL>>) ELSE sent

OnLine(line) ==
    /\ canExit' = FALSE
    /\ sent' = IF csock = "open" THEN Append(sent, line \o <<NL>>) ELSE sent

Line(line) ==
    /\ cpc \in {"loading", "ready", "ensureDir", "writeFile"}
    /\ Len(submitted) < MaxLines
    /\ ~lateLine
    /\ inputHistory' =
          IF terminal
          THEN AddHistory(inputHistory, line, HistorySize(optHistorySize), rmDup)
          ELSE inputHistory
    /\ OnLine(line)
    /\ IF csock = "closed"
       THEN lateLine' = TRUE /\ UNCHANGED submitted
       ELSE submitted' = Append(submitted, line) /\ UNCHANGED lateLine
    /\ UNCHANGED <<cpc, csock, hadError, optPrompt, prompt, terminal,
                   optHistorySize, rmDup, historyDefined, fileExists,
                   fileContent, dirExists, writeBuf, rendered, chunk, nChunks,
                   exitCode, fileAtStart>>
    /\ sigLog' = Append(sigLog, LogEntry("line", FALSE))
    /\ UNCHANGED <<pauseLog, nRendered, nRuns>>
    /\ UNCHANGED serverVars
    /\ UNCHANGED transportVars

(* The socket "data" handler: fix the prompt, write the chunk. The chunk  *)
(* is cut in the last branch of the chain only: its first bytes are two   *)
(* prompts, and neither the continuation prompt nor one prompt.           *)
(* (Variant: a chunk that is one prompt is cut as well.)                   *)
CutsOnePromptToo(str, P) == str # ContPrompt /\ (str = P \/ str = P \o P)

Cuts(str, P) == str # ContPrompt /\ str # P /\ str = P \o P

OnData(buf) ==
    LET str == SliceTo(buf, PrefixLen)
        P == ClientPrompt(optPrompt)
    IN  /\ prompt' = IF str = ContPrompt THEN ContPrompt
                     ELSE IF str = P THEN P
                     ELSE prompt
        /\ rendered' = IF Cuts(str, P) THEN SliceOffEnd(buf, Len(P)) ELSE buf
        /\ nRendered' = nRendered + 1

SockData(buf) ==
    /\ cpc \in {"loading", "ready"}
    /\ csock = "open"
    /\ nChunks < MaxChunks
    /\ nChunks' = nChunks + 1
    /\ chunk' = buf
    /\ OnData(buf)
    /\ UNCHANGED <<cpc, csock, hadError, canExit, optPrompt, terminal,
                   optHistorySize, rmDup, historyDefined, inputHistory,
                   fileExists, fileContent, dirExists, writeBuf, sent, exitCode,
                   fileAtStart, submitted, lateLine, sigLog>>
    /\ UNCHANGED <<pauseLog, nRuns>>
    /\ UNCHANGED serverVars
    /\ UNCHANGED transportVars

(* fs.readFile settles: the history is loaded and patched, then the        *)
(* "close", "error", "SIGINT" and "pause" listeners are attached.          *)
(* (Variant: the lines of the file are not reversed.)                      *)
LoadHistoryNoReverse(exists, content) ==
    IF exists THEN Split(content) ELSE <<>>

LoadHistory(exists, content) ==
    IF exists THEN Reverse(Split(content)) ELSE <<>>

ReadFileDone ==
    /\ cpc = "loading"
    /\ cpc' = "ready"
    /\ LET history == LoadHistory(fileExists, fileContent)
       IN IF Len(history) > 0
          THEN /\ inputHistory' =
                     (IF historyDefined THEN inputHistory ELSE <<>>) \o history
               /\ historyDefined' = TRUE
          ELSE UNCHANGED <<inputHistory, historyDefined>>
    /\ UNCHANGED <<csock, hadError, canExit, optPrompt, prompt, terminal,
                   optHistorySize, rmDup, fileExists, fileContent, dirExists,
                   writeBuf, sent, rendered, chunk, nChunks, exitCode, fileAtStart,
                   submitted, lateLine, sigLog>>
    /\ UNCHANGED <<pauseLog, nRendered, nRuns>>
    /\ UNCHANGED serverVars
    /\ UNCHANGED transportVars

(* The "SIGINT" handler of the readline interface: armed is tested first,  *)
(* then the continuation prompt.                                           *)
(* (Variants: no destroy in the armed branch; the continuation prompt      *)
(* tested before the armed flag.)                                          *)
OnSigIntNoDestroy ==
    IF canExit
    THEN UNCHANGED <<canExit, csock, sent>>
    ELSE IF prompt = ContPrompt
    THEN /\ sent' = IF csock = "open" THEN Append(sent, BreakCmd) ELSE sent
         /\ UNCHANGED <<canExit, csock>>
    ELSE canExit' = TRUE /\ UNCHANGED <<csock, sent>>

OnSigIntBreakFirst ==
    IF prompt = ContPrompt
    THEN /\ sent' = IF csock = "open" THEN Append(sent, BreakCmd) ELSE sent
         /\ UNCHANGED <<canExit, csock>>
    ELSE IF canExit
    THEN csock' = Destroyed(csock) /\ UNCHANGED <<canExit, sent>>
    ELSE canExit' = TRUE /\ UNCHANGED <<csock, sent>>

OnSigInt ==
    IF canExit
    THEN csock' = Destroyed(csock) /\ UNCHANGED <<canExit, sent>>
    ELSE IF prompt = ContPrompt
    THEN /\ sent' = IF csock = "open" THEN Append(sent, BreakCmd) ELSE sent
         /\ UNCHANGED <<canExit, csock>>
    ELSE canExit' = TRUE /\ UNCHANGED <<csock, sent>>

SigInt ==
    /\ cpc \in {"ready", "ensureDir", "writeFile"}
    /\ NumInts(sigLog) < MaxInts
    /\ OnSigInt
    /\ sigLog' = Append(sigLog, LogEntry("int", sent' = Append(sent, BreakCmd)))
    /\ UNCHANGED <<cpc, hadError, optPrompt, prompt, terminal, optHistorySize,
                   rmDup, historyDefined, inputHistory, fileExists, fileContent,
                   dirExists, writeBuf, rendered, chunk, nChunks, exitCode,
                   fileAtStart, submitted, lateLine>>
    /\ UNCHANGED <<pauseLog, nRendered, nRuns>>
    /\ UNCHANGED serverVars
    /\ UNCHANGED transportVars

(* The "pause" handler.                                                    *)
(* (Variant of the handler: it destroys the socket only when armed.)       *)
OnPauseWhenArmed == csock' = IF canExit THEN Destroyed(csock) ELSE csock

OnPause == csock' = Destroyed(csock)

Pause ==
    /\ cpc = "ready"
    /\ csock = "open"
    /\ OnPause
    /\ UNCHANGED <<cpc, hadError, canExit, optPrompt, prompt, terminal,
                   optHistorySize, rmDup, historyDefined, inputHistory,
                   fileExists, fileContent, dirExists, writeBuf, sent, rendered,
                   chunk, nChunks, exitCode, fileAtStart, submitted, lateLine, sigLog>>
    /\ pauseLog' = Append(pauseLog, [armed |-> canExit,
                                     ml |-> prompt = ContPrompt,
                                     sock |-> csock, sock2 |-> csock'])
    /\ UNCHANGED <<nRendered, nRuns>>
    /\ UNCHANGED serverVars
    /\ UNCHANGED transportVars

(* Whether a "close" listener is attached when the socket closes.          *)
CloseListenerAttached == cpc = "ready"

(* The socket closes: after a local destroy() (no error), or because the   *)
(* peer closed or the connection failed.  The "close" handler starts: it   *)
(* takes input.history, reverses it in place and awaits fs.ensureDir.      *)
SockClosed(err) ==
    /\ cpc \in {"loading", "ready"}
    /\ csock \in {"open", "destroyed"}
    /\ csock = "destroyed" => ~err
    /\ csock' = "closed"
    /\ hadError' = err
    /\ IF ~CloseListenerAttached
       THEN UNCHANGED <<cpc, inputHistory>>
       ELSE IF ~historyDefined
       THEN cpc' = "threw" /\ UNCHANGED inputHistory
       ELSE cpc' = "ensureDir" /\ inputHistory' = Reverse(inputHistory)
    /\ UNCHANGED <<canExit, optPrompt, prompt, terminal, optHistorySize, rmDup,
                   historyDefined, fileExists, fileContent, dirExists, writeBuf,
                   sent, rendered, chunk, nChunks, exitCode, fileAtStart, submitted,
                   lateLine, sigLog>>
    /\ UNCHANGED <<pauseLog, nRendered, nRuns>>
    /\ UNCHANGED serverVars
    /\ UNCHANGED transportVars

(* fs.ensureDir settles; on success fs.writeFile is called with            *)
(* history.join("\n").                                                     *)
EnsureDirDone(ok) ==
    /\ cpc = "ensureDir"
    /\ IF ok
       THEN /\ cpc' = "writeFile"
            /\ dirExists' = TRUE
            /\ writeBuf' = Join(inputHistory)
       ELSE cpc' = "fsFailed" /\ UNCHANGED <<dirExists, writeBuf>>
    /\ UNCHANGED <<csock, hadError, canExit, optPrompt, prompt, terminal,
                   optHistorySize, rmDup, historyDefined, inputHistory,
                   fileExists, fileContent, sent, rendered, chunk, nChunks, exitCode,
                   fileAtStart, submitted, lateLine, sigLog>>
    /\ UNCHANGED <<pauseLog, nRendered, nRuns>>
    /\ UNCHANGED serverVars
    /\ UNCHANGED transportVars

(* fs.writeFile settles; on success input.close() and process.exit.       *)
ExitStatus(err) == IF err THEN 1 ELSE 0

WriteFileDone(ok) ==
    /\ cpc = "writeFile"
    /\ IF ok
       THEN /\ cpc' = "exited"
            /\ fileExists' = TRUE
            /\ fileContent' = writeBuf
            /\ exitCode' = ExitStatus(hadError)
       ELSE cpc' = "fsFailed" /\ UNCHANGED <<fileExists, fileContent, exitCode>>
    /\ UNCHANGED <<csock, hadError, canExit, optPrompt, prompt, terminal,
                   optHistorySize, rmDup, historyDefined, inputHistory,
                   dirExists, writeBuf, sent, rendered, chunk, nChunks, fileAtStart,
                   submitted, lateLine, sigLog>>
    /\ UNCHANGED <<pauseLog, nRendered, nRuns>>
    /\ UNCHANGED serverVars
    /\ UNCHANGED transportVars

(* The client process has exited and connect() is run again, in a new      *)
(* process, with the same options and on the history file as it is now:    *)
(* the promise of the socket has resolved and fs.readFile is awaited.      *)
(* The file at the start and the lines submitted are those since the first *)
(* of the runs.                                                            *)
RunAgain ==
    /\ cpc = "exited"
    /\ nRuns < MaxRuns
    /\ nRuns' = nRuns + 1
    /\ cpc' = "loading"
    /\ csock' = "open"
    /\ hadError' = FALSE
    /\ canExit' = FALSE
    /\ prompt' = ClientPrompt(optPrompt)
    /\ historyDefined' = terminal
    /\ inputHistory' = <<>>
    /\ writeBuf' = <<>>
    /\ rendered' = <<>>
    /\ chunk' = <<>>
    /\ nChunks' = 0
    /\ nRendered' = 0
    /\ exitCode' = -1
    /\ UNCHANGED <<optPrompt, terminal, optHistorySize, rmDup, fileExists,
                   fileContent, dirExists, sent, fileAtStart, submitted,
                   lateLine, sigLog, pauseLog>>
    /\ UNCHANGED serverVars
    /\ UNCHANGED transportVars

(* The interactive session: one history file, default options.             *)
SessionLines == {<<"b">>}

InitClient ==
    \E exists \in BOOLEAN, term \in BOOLEAN :
        /\ ServerStart
        /\ TransportIdle
        /\ ClientStart(exists, IF exists THEN <<"a">> ELSE <<>>, exists, term,
                       0, FALSE, NoPrompt)

NextClient ==
    \/ \E line \in SessionLines : Line(line)
    \/ \E buf \in Chunks(ClientPrompt(optPrompt)) : SockData(buf)
    \/ ReadFileDone
    \/ SigInt
    \/ Pause
    \/ \E err \in BOOLEAN : SockClosed(err)
    \/ \E ok \in BOOLEAN : EnsureDirDone(ok)
    \/ \E ok \in BOOLEAN : WriteFileDone(ok)

SpecClient == InitClient /\ [][NextClient]_vars

(* The history store alone: any history file and history options, no       *)
(* interrupts and no inbound chunks.                                       *)
HistorySizes == {0, 2}

InitHistory ==
    \E exists \in BOOLEAN, content \in FileContents, dir \in BOOLEAN,
       term \in BOOLEAN, size \in HistorySizes, rm \in BOOLEAN :
        /\ ServerStart
        /\ TransportIdle
        /\ InitFiles(exists, content, dir)
        /\ ClientStart(exists, content, dir, term, size, rm, NoPrompt)

NextHistory ==
    \/ \E line \in LineInputs : Line(line)
    \/ ReadFileDone
    \/ \E err \in BOOLEAN : SockClosed(err)
    \/ \E ok \in BOOLEAN : EnsureDirDone(ok)
    \/ \E ok \in BOOLEAN : WriteFileDone(ok)

SpecHistory == InitHistory /\ [][NextHistory]_vars

(* The history with files of one line and of more lines than the size     *)
(* asked for.                                                              *)
SizeFiles == {<<"a">>, <<"a", NL, "b", NL, "a">>}

InitSize ==
    \E exists \in BOOLEAN, content \in SizeFiles \cup {<<>>},
       term \in BOOLEAN, size \in HistorySizes, rm \in BOOLEAN :
        /\ ServerStart
        /\ TransportIdle
        /\ exists <=> content \in SizeFiles
        /\ ClientStart(exists, content, exists, term, size, rm, NoPrompt)

SpecSize == InitSize /\ [][NextHistory]_vars

(* The history over runs of the client that follow one another.            *)
NextFlush ==
    \/ NextHistory
    \/ RunAgain

SpecFlush == InitHistory /\ [][NextFlush]_vars

(* The prompt handling alone: any prompt option of the caller, and chunks   *)
(* that begin with a prompt and carry more bytes after it.                 *)
PromptOptions == {NoPrompt, <<>>, <<"$", " ">>, <<"a", "b", "c">>}

EchoChunks(P) ==
    {ContPrompt, ContPrompt \o <<"x">>, P, P \o <<"x">>, P \o P,
     P \o P \o <<"x">>, <<"x">>}

InitPrompt ==
    \E popt \in PromptOptions :
        /\ ServerStart
        /\ TransportIdle
        /\ ClientStart(FALSE, <<>>, FALSE, TRUE, 0, FALSE, popt)

NextPrompt ==
    \/ \E buf \in EchoChunks(ClientPrompt(optPrompt)) : SockData(buf)
    \/ \E line \in SessionLines : Line(line)
    \/ ReadFileDone
    \/ SigInt
    \/ Pause

SpecPrompt == InitPrompt /\ [][NextPrompt]_vars

(* The connection from the call of connect() on: servers of other          *)
(* processes listen at the path (a socket file, a named pipe, or a port    *)
(* written to the file) and at a port.                                     *)
InitHandshake ==
    \E plat \in {"win32", "posix"}, kind \in {"none", "file", "socket"},
       popt \in PromptOptions :
        /\ kind = "socket" <=> plat = "posix"
        /\ ServerStart
        /\ ClientConnecting(FALSE, <<>>, FALSE, TRUE, 0, FALSE, popt)
        /\ TransportStartWith(plat, FALSE, kind,
              IF kind = "file" THEN <<"9">> ELSE <<>>,
              {Endpoint("tcp", 9),
               IF plat = "win32" THEN Endpoint("pipe", 0)
                                 ELSE Endpoint("path", 0)})

NextHandshake ==
    \/ \E arg \in ServeArgs, path \in SockPaths \cup {NoPath} :
          ConnectCall(arg, path)
    \/ ConnectPathExistsDone
    \/ \E ok \in BOOLEAN : ConnectReadFileDone(ok)
    \/ \E ok \in BOOLEAN : ConnectDone(ok)
    \/ \E ok \in BOOLEAN : ConnectWriteDone(ok)
    \/ ClientSetup
    \/ \E line \in LineInputs : Line(line)
    \/ ReadFileDone

SpecHandshake == InitHandshake /\ [][NextHandshake]_vars

(***************************************************************************)
(* END TO END: the client and the server side of its connection, which is  *)
(* connection 1 of the server.                                             *)
(***************************************************************************)
ExitCmd == <<".", "e", "x", "i", "t">>

(* The client has written the line ".exit" to its socket.                  *)
ExitSent == \E i \in 1..Len(sent) : sent[i] = ExitCmd \o <<NL>>

(* The REPL of the connection reads the line ".exit".                      *)
ServerReadsExit ==
    /\ ExitSent
    /\ ReplExits(1)

(* The client's socket emits "close": the client destroyed it, or the      *)
(* server destroyed its side.                                              *)
ClientSocketCloses ==
    /\ csock = "destroyed" \/ sockState[1] \in {"destroyed", "closed"}
    /\ SockClosed(FALSE)

(* The server's socket learns that the client's side is gone.              *)
ServerSocketEnds ==
    /\ csock \in {"destroyed", "closed"}
    /\ SocketLost(1)

(***************************************************************************)
(* Specifications.                                                         *)
(***************************************************************************)
NextServer ==
    \/ Serve
    \/ \E c \in Conns, s \in Servers : Accept(c, s)
    \/ \E c \in Conns, f \in Frames : FirstData(c, f)
    \/ \E c \in Conns : ReplExits(c)
    \/ \E c \in Conns : SocketLost(c)
    \/ \E c \in Conns : SocketClose(c)
    \/ StdoutWrite(TRUE, {})

ClientIdle == ClientStart(FALSE, <<>>, FALSE, TRUE, 0, FALSE, NoPrompt)

InitServe == ServerStart /\ ClientIdle /\ TransportIdle

SpecServer == InitServe /\ [][NextServer]_vars

(* The lifecycle of the connections alone, without standard-output writes. *)
NextLifecycle ==
    \/ Serve
    \/ \E c \in Conns, s \in Servers : Accept(c, s)
    \/ \E c \in Conns, f \in Frames : FirstData(c, f)
    \/ \E c \in Conns : ReplExits(c)
    \/ \E c \in Conns : SocketLost(c)
    \/ \E c \in Conns : SocketClose(c)

SpecLifecycle == InitServe /\ [][NextLifecycle]_vars

(* The lifecycle of the connections with the lines their sessions          *)
(* evaluate.                                                               *)
NextSession ==
    \/ Serve
    \/ \E c \in Conns, s \in Servers : Accept(c, s)
    \/ \E c \in Conns, f \in Frames : FirstData(c, f)
    \/ \E c \in Conns : EvalLine(c, NoThrow, "none", PlainCode)
    \/ \E c \in Conns : ReplExits(c)
    \/ \E c \in Conns : SocketLost(c)
    \/ \E c \in Conns : SocketClose(c)

SpecSession == InitServe /\ [][NextSession]_vars

(* Evaluation: sessions of valid handshakes and the lines they evaluate.   *)
EvalFrames == [kind : {"valid"}, noStdout : {"absent", "true"}]

NextEval ==
    \/ Serve
    \/ \E c \in Conns, s \in Servers : Accept(c, s)
    \/ \E c \in Conns, f \in EvalFrames : FirstData(c, f)
    \/ \E c \in Conns, o \in Outcomes : EvalLine(c, o, "none", PlainCode)
    \/ \E c \in Conns : ReplExits(c)
    \/ \E c \in Conns : SocketLost(c)
    \/ \E c \in Conns : SocketClose(c)

SpecEval == InitServe /\ [][NextEval]_vars

(* One client and the server it is connected to, with a file system that   *)
(* does not fail.  The callbacks of both processes run when they are due;  *)
(* what the user types and the signals are not forced to happen.           *)
InitEndToEnd ==
    \E exists \in BOOLEAN, term \in BOOLEAN :
        /\ ServerStart
        /\ TransportIdle
        /\ ClientStart(exists, IF exists THEN <<"a">> ELSE <<>>, exists, term,
                       0, FALSE, NoPrompt)

ProgramSteps ==
    \/ Serve
    \/ Accept(1, 1)
    \/ \E f \in EvalFrames : FirstData(1, f)
    \/ ServerSocketEnds
    \/ SocketClose(1)
    \/ ReadFileDone
    \/ ClientSocketCloses
    \/ EnsureDirDone(TRUE)
    \/ WriteFileDone(TRUE)

NextEndToEnd ==
    \/ ProgramSteps
    \/ Line(ExitCmd)
    \/ ServerReadsExit
    \/ Pause

SpecEndToEnd ==
    InitEndToEnd /\ [][NextEndToEnd]_vars /\ WF_vars(ProgramSteps)

(* The two output streams of the host: sessions and the writes to          *)
(* standard output and to standard error.                                  *)
NextFanout ==
    \/ Serve
    \/ \E c \in Conns, s \in Servers : Accept(c, s)
    \/ \E c \in Conns, f \in EvalFrames : FirstData(c, f)
    \/ \E r \in BOOLEAN, full \in SUBSET Conns : StdoutWrite(r, full)
    \/ StderrWrite

SpecFanout == InitServe /\ [][NextFanout]_vars

(* The errors of the sockets: sessions whose sockets fail, with errors of  *)
(* the reset class and with others.                                        *)
NextErrors ==
    \/ Serve
    \/ \E c \in Conns, s \in Servers : Accept(c, s)
    \/ \E c \in Conns, f \in EvalFrames : FirstData(c, f)
    \/ \E c \in Conns : SocketLost(c)
    \/ \E c \in Conns : SocketError(c)
    \/ \E c \in Conns : SocketClose(c)

SpecErrors == InitServe /\ [][NextErrors]_vars

(* The lines of the sessions, with and without "await", on the versions   *)
(* of the host runtime.                                                    *)
InitAwait ==
    \E v \in Versions : ServerStartOn(v) /\ ClientIdle /\ TransportIdle

NextAwait ==
    \/ Serve
    \/ \E c \in Conns, s \in Servers : Accept(c, s)
    \/ \E c \in Conns, f \in EvalFrames : FirstData(c, f)
    \/ \E c \in Conns, code \in Codes : EvalLine(c, NoThrow, "none", code)

SpecAwait == InitAwait /\ [][NextAwait]_vars

(* Sessions that opted out of standard output next to sessions that did   *)
(* not: their lines, and the writes of the host to standard output.        *)
NextOptOut ==
    \/ Serve
    \/ \E c \in Conns, s \in Servers : Accept(c, s)
    \/ \E c \in Conns, f \in Frames : FirstData(c, f)
    \/ \E c \in Conns : EvalLine(c, NoThrow, "none", PlainCode)
    \/ StdoutWrite(TRUE, {})

SpecOptOut == InitServe /\ [][NextOptOut]_vars

(* The process-global context: the lines of the sessions and the           *)
(* statements of the host program.                                         *)
NextShared ==
    \/ Serve
    \/ \E c \in Conns, s \in Servers : Accept(c, s)
    \/ \E c \in Conns, f \in EvalFrames : FirstData(c, f)
    \/ \E c \in Conns, a \in Values \cup {"none"} :
          EvalLine(c, NoThrow, a, PlainCode)
    \/ \E v \in Values : HostAssign(v)
    \/ HostRead

SpecShared == InitServe /\ [][NextShared]_vars

(* The endpoint: any platform, a worker or not, and any resource left at   *)
(* the path by an earlier run.                                             *)
InitTransport ==
    \E plat \in {"win32", "posix"}, worker \in BOOLEAN,
       kind \in {"none", "file", "socket"}, text \in StaleTexts \cup {<<>>} :
        /\ kind = "file" <=> text # <<>>
        /\ kind = "socket" => plat = "posix"
        /\ ServerStart
        /\ ClientIdle
        /\ TransportStart(plat, worker, kind, text)

NextTransport ==
    \/ \E arg \in ServeArgs, path \in SockPaths \cup {NoPath} :
          ServeCall(arg, path)
    \/ \E ok \in BOOLEAN : ServeEnsureDirDone(ok)
    \/ ServePathExistsDone
    \/ \E ok \in BOOLEAN : ServeUnlinkDone(ok)
    \/ \E ok \in BOOLEAN, p \in Ports \cup {0} : ServeListenDone(ok, p)
    \/ \E ok \in BOOLEAN : ServeWritePortDone(ok)
    \/ \E arg \in ServeArgs, path \in SockPaths \cup {NoPath} :
          ConnectCall(arg, path)
    \/ ConnectPathExistsDone
    \/ \E ok \in BOOLEAN : ConnectReadFileDone(ok)
    \/ \E ok \in BOOLEAN : ConnectDone(ok)
    \/ \E ok \in BOOLEAN : ConnectWriteDone(ok)

SpecTransport == InitTransport /\ [][NextTransport]_vars

(***************************************************************************)
(* Properties of the server.                                               *)
(***************************************************************************)

(* C1: for every connection whose first frame is a valid HandshakeFrame,   *)
(* exactly one evaluation context is created, and right after the         *)
(* handshake the socket is in the Registration Set if and only if          *)
(* noStdout is absent or false.                                            *)
C1_HandshakeSuccess ==
    \A c \in Conns :
        /\ nRepl[c] <= 1
        /\ (hsDone[c] /\ frame[c].kind = "valid") =>
              /\ nRepl[c] = 1
              /\ replState[c] # "undef"
              /\ (regAtHs[c] = "in") <=> (frame[c].noStdout \in {"absent", "false"})

C1_Witness ==
    \E c, d \in Conns :
        /\ frame[c].kind = "valid" /\ frame[c].noStdout = "true"
        /\ regAtHs[c] = "out" /\ replState[c] = "running"
        /\ frame[d].kind = "valid" /\ frame[d].noStdout = "false"
        /\ regAtHs[d] = "in" /\ replState[d] = "running"

(* C2: for every connection whose first frame does not parse as JSON (a    *)
(* prefix of a JSON text included), the socket is destroyed by the         *)
(* handshake handler, nothing is ever written to it, no evaluation context *)
(* is created, it is never registered, and no further frame is parsed.     *)
C2_HandshakeFailure ==
    \A c \in Conns :
        /\ nParse[c] <= 1
        /\ (hsDone[c] /\ ~JSONParses(frame[c])) =>
              /\ sockState[c] \in {"destroyed", "closed"}
              /\ sockOut[c] = <<>>
              /\ sockCalls[c] = <<>>
              /\ nRepl[c] = 0
              /\ replState[c] = "undef"
              /\ c \notin Registered
              /\ regAtHs[c] = "out"

C2_Witness ==
    \E c, d \in Conns :
        /\ frame[c].kind = "truncated" /\ sockState[c] = "closed"
        /\ frame[d].kind = "malformed" /\ sockState[d] = "destroyed"
        /\ nWrites > 0

(* C3: once the close of a connection has been handled, its socket is not  *)
(* in the Registration Set.                                                *)
C3_NoDanglingRegistration ==
    \A c \in Conns : sockState[c] = "closed" => c \notin Registered

(* C4: every standard-output write is passed to the original write exactly *)
(* once and to the socket of every session registered at that moment       *)
(* exactly once, and to no other socket.                                   *)
C4_FanoutDelivery ==
    \A w \in 1..nWrites :
        /\ Count(termLog, w) = 1
        /\ \A c \in Conns :
              Count(sockCalls[c], w) = IF c \in regAtWrite[w] THEN 1 ELSE 0

C4_Witness ==
    /\ nWrites > 0
    /\ Cardinality(regAtWrite[nWrites]) = 2
    /\ \A c \in regAtWrite[nWrites] : Count(sockCalls[c], nWrites) = 1

(***************************************************************************)
(* Properties of the client.                                               *)
(***************************************************************************)

(* C5: whenever the client's socket has closed, at whatever point of the   *)
(* set-up or the session, the client flushes the history and then exits    *)
(* with status 1 after an error and 0 otherwise.  As a property of finite  *)
(* runs: once the socket has closed the close handler has started its      *)
(* flush (or a filesystem call of the flush has failed), and an exit       *)
(* follows the write with the right status.                                *)
C5_CloseFlushesThenExits ==
    /\ csock = "closed" => cpc \in {"ensureDir", "writeFile", "exited", "fsFailed"}
    /\ cpc = "exited" => /\ exitCode = (IF hadError THEN 1 ELSE 0)
                         /\ fileExists /\ fileContent = writeBuf
    /\ cpc # "exited" => exitCode = -1

IsInt(i) == i \in 1..Len(sigLog) /\ sigLog[i].kind = "int"

(* C6 as stated: two interrupt signals with no submitted line between them *)
(* close the connection, in every client state.                            *)
C6_TwoInterruptsClose ==
    \A i \in 1..Len(sigLog) :
        (IsInt(i) /\ IsInt(i + 1)) => sigLog[i + 1].sock2 # "open"

(* C6 as amended: two interrupt signals with no submitted line between     *)
(* them close the connection when the first of them is received while the  *)
(* client is not in multi-line input, or is armed already.                 *)
C6_TwoInterruptsCloseOutsideMultiline ==
    \A i \in 1..Len(sigLog) :
        (IsInt(i) /\ IsInt(i + 1) /\ (sigLog[i].armed \/ ~sigLog[i].ml)) =>
            sigLog[i + 1].sock2 # "open"

C6_Witness ==
    \E i \in 1..Len(sigLog) :
        /\ IsInt(i) /\ IsInt(i + 1)
        /\ ~sigLog[i].armed /\ ~sigLog[i].ml /\ sigLog[i].sock = "open"
        /\ sigLog[i + 1].sock = "open" /\ sigLog[i + 1].sock2 = "destroyed"

(* C7: a submitted line does not close the connection and leaves the armed *)
(* flag false; an interrupt that is the first one after a line (or the     *)
(* first one at all) finds the flag false and does not close either.       *)
FirstIntSinceLine(i) == IsInt(i) /\ ~IsInt(i - 1)

C7_LineResetsArmed ==
    /\ \A i \in 1..Len(sigLog) :
          /\ sigLog[i].kind = "line" =>
                ~sigLog[i].armed2 /\ sigLog[i].sock2 = sigLog[i].sock
          /\ FirstIntSinceLine(i) =>
                ~sigLog[i].armed /\ sigLog[i].sock2 = sigLog[i].sock
    /\ (sigLog = <<>> \/ sigLog[Len(sigLog)].kind = "line") => ~canExit

C7_Witness ==
    /\ Len(sigLog) = 3
    /\ sigLog[1].kind = "int" /\ sigLog[1].armed2 /\ sigLog[1].sock = "open"
    /\ sigLog[2].kind = "line" /\ sigLog[2].armed /\ sigLog[2].sock2 = "open"
    /\ sigLog[3].kind = "int" /\ sigLog[3].armed2 /\ sigLog[3].sock2 = "open"

(* C8: an interrupt received while not armed and not in multi-line input   *)
(* arms and leaves the connection as it is; one received while not armed   *)
(* and in multi-line input sends ".break", stays unarmed and leaves the    *)
(* connection as it is; one received while armed destroys the socket.      *)
C8_InterruptStages ==
    \A i \in 1..Len(sigLog) :
        IsInt(i) =>
            LET e == sigLog[i] IN
            /\ (~e.armed /\ ~e.ml) => (e.armed2 /\ e.sock2 = e.sock /\ ~e.brk)
            /\ (~e.armed /\ e.ml) =>
                  /\ ~e.armed2 /\ e.sock2 = e.sock
                  /\ e.sock = "open" => e.brk
            /\ e.armed => (e.sock2 # "open" /\ ~e.brk)

C8_Witness ==
    /\ \E i \in 1..Len(sigLog) :
          IsInt(i) /\ ~sigLog[i].armed /\ sigLog[i].ml /\ sigLog[i].brk
    /\ \E i \in 1..Len(sigLog) :
          IsInt(i) /\ sigLog[i].armed
          /\ sigLog[i].sock = "open" /\ sigLog[i].sock2 = "destroyed"
    /\ \E i \in 1..Len(sigLog) :
          IsInt(i) /\ ~sigLog[i].armed /\ ~sigLog[i].ml /\ sigLog[i].armed2

(***************************************************************************)
(* Properties of the history store.                                        *)
(***************************************************************************)

(* The lines a history file holds: one per line, a newline at the end of   *)
(* the file being optional.                                                *)
FileLines(content) ==
    IF content = <<>> THEN <<>>
    ELSE LET parts == Split(content)
         IN IF parts[Len(parts)] = <<>>
            THEN SubSeq(parts, 1, Len(parts) - 1)
            ELSE parts

(* C9: the history loaded from a file holding L1..Ln is exactly L1..Ln,    *)
(* and the file written on close holds L1..Ln followed by the lines        *)
(* submitted during the session, oldest first.                             *)
C9_HistoryRoundTrip ==
    fileAtStart.exists =>
        /\ (cpc = "ready" /\ submitted = <<>>) =>
              /\ historyDefined
              /\ Reverse(inputHistory) = FileLines(fileAtStart.content)
        /\ (cpc = "exited" /\ ~lateLine) =>
              FileLines(fileContent) = FileLines(fileAtStart.content) \o submitted

(* C10: with no history file at connection start the loaded history is     *)
(* empty, the close handler does not fail, and the file written on close   *)
(* (its directory created) holds exactly the lines submitted, oldest       *)
(* first.                                                                  *)
C10_MissingHistoryFile ==
    ~fileAtStart.exists =>
        /\ cpc # "threw"
        /\ (cpc = "ready" /\ submitted = <<>>) => inputHistory = <<>>
        /\ (cpc = "exited" /\ ~lateLine) =>
              /\ fileExists /\ dirExists
              /\ FileLines(fileContent) = submitted

(***************************************************************************)
(* Properties of the prompt-echo correction.                               *)
(***************************************************************************)
BeginsWith(buf, pre) ==
    Len(buf) >= Len(pre) /\ SubSeq(buf, 1, Len(pre)) = pre

DropPrefix(buf, n) == SubSeq(buf, n + 1, Len(buf))

(* C11: for every configured prompt P, a chunk that begins with P followed *)
(* by P, whatever follows, is written to the terminal with exactly one     *)
(* P-length prefix removed.                                                *)
C11_DoubledPromptCut ==
    LET P == ClientPrompt(optPrompt)
    IN  (nChunks > 0 /\ BeginsWith(chunk, P \o P)) =>
            rendered = DropPrefix(chunk, Len(P))

(* C12: a chunk that begins with the continuation prompt switches the      *)
(* displayed prompt to the continuation form and is written unaltered; a   *)
(* chunk that begins with the configured prompt switches the displayed     *)
(* prompt to the configured prompt.                                        *)
C12_PromptSwitching ==
    LET P == ClientPrompt(optPrompt)
    IN  nChunks > 0 =>
            /\ BeginsWith(chunk, ContPrompt) =>
                  prompt = ContPrompt /\ rendered = chunk
            /\ BeginsWith(chunk, P) => prompt = P

(***************************************************************************)
(* Properties of the endpoint.                                             *)
(***************************************************************************)

(* C13: in the port-file branch (a cluster worker on Windows, serve given  *)
(* a path), once the promise of serve() has resolved the server listens on *)
(* a TCP port of the loopback interface and the file at the path holds the *)
(* decimal digits of that port and nothing else; a connect() that reads    *)
(* the file then calls socket.connect with 127.0.0.1 and that port.        *)
C13_PortFileRoundTrip ==
    /\ PortFileServed =>
          /\ listenOn.type = "tcp" /\ listenOn.port \in Ports
          /\ listenOn \in listening
          /\ pathKind = "file"
          /\ \A i \in 1..Len(pathText) : pathText[i] \in DigitChars
          /\ DecValue(pathText) = listenOn.port
    /\ (kSrv # -1 /\ kpc \in {"connecting", "writing", "resolved"}) =>
          kTarget = Endpoint("tcp", kSrv)

C13_Witness ==
    /\ PortFileServed /\ hadStale
    /\ kpc = "resolved" /\ kSrv = listenOn.port /\ kSrv >= 10
    /\ kTarget = listenOn

(* C14: every filesystem, bind or connect error raised in serve() or in    *)
(* connect() rejects the promise the call returned, with that error.       *)
C14_TransportErrorsReject ==
    /\ sErr # "none" => (spc = "rejected" /\ sRej = sErr)
    /\ kErr # "none" => (kpc = "rejected" /\ kRej = kErr)

C20_WrappedOnce == nCalls > 0 => wrapDepth = 1

(***************************************************************************)
(* Properties of evaluation.                                               *)
(***************************************************************************)

(* C16: the error of a line is classified recoverable exactly when it is a *)
(* parse error of incomplete input; an error thrown by running code is     *)
(* never classified recoverable.                                           *)
C16_RecoverableClassification ==
    (nEval > 0 /\ lastEval.out.origin # "none") =>
        ((lastEval.cb = "recoverable") <=>
            (lastEval.out.origin = "parse" /\ lastEval.out.incomplete))

(* C17: when a line raises an error that is not recoverable, the callback  *)
(* is called with the error, and right after it the session is Active, its *)
(* socket open and its registration what it was.                           *)
C17_FailureKeepsSession ==
    (nEval > 0 /\ lastEval.out.origin # "none"
              /\ lastEval.cb # "recoverable") =>
        /\ lastEval.cb = "error"
        /\ lastEval.sock = "open"
        /\ lastEval.repl = "running"
        /\ lastEval.reg2 = lastEval.reg

(***************************************************************************)
(* Properties of concurrent sessions.                                      *)
(***************************************************************************)
SessionState(c) ==
    <<sockState[c], hsDone[c], frame[c], replState[c], nRepl[c],
      c \in Registered>>

(* C18: a step that changes the session state or the registration of one   *)
(* connection leaves the session state and the registration of every other *)
(* connection unchanged, and a server that was started accepts any         *)
(* connection not yet made.                                                *)
C18_SessionIsolation ==
    [][/\ \A c, d \in Conns :
            (c # d /\ SessionState(c)' # SessionState(c)) =>
                SessionState(d)' = SessionState(d)
       /\ \A c \in Conns :
            (nServe > 0 /\ sockState[c] = "none") => ENABLED Accept(c, 1)]_vars

C18_Witness ==
    \E c, d \in Conns :
        /\ c # d
        /\ frame[c].kind = "malformed" /\ sockState[c] = "closed"
        /\ frame[d].kind = "valid" /\ replState[d] = "running"
        /\ sockState[d] = "open" /\ d \in Registered

(* C19: when the write to one registered socket fails during a             *)
(* standard-output write, the write still reaches the original write once  *)
(* and every other registered socket once, and does not throw to its       *)
(* caller.                                                                 *)
C19_BrokenPeerSkipped ==
    \A w \in 1..nWrites : \A c \in Conns :
        Count(sockErrs[c], w) > 0 =>
            /\ Count(termLog, w) = 1
            /\ \A d \in regAtWrite[w] \ {c} : Count(sockCalls[d], w) = 1
            /\ w \notin escaped

C19_Witness ==
    \E w \in 1..nWrites : \E c, d \in regAtWrite[w] :
        /\ c < d
        /\ Count(sockErrs[c], w) = 1
        /\ Count(sockErrs[d], w) = 0 /\ Count(sockCalls[d], w) = 1

(* C21: while at least one session is registered, every write of the host  *)
(* to standard error is delivered to the socket of every registered        *)
(* session, as the writes to standard output are.                          *)
C21_StderrFanout ==
    /\ \A w \in 1..nWrites : \A c \in regAtWrite[w] :
          Count(sockCalls[c], w) > 0
    /\ \A e \in 1..nStderr : \A c \in regAtStderr[e] :
          Count(sockStderr[c], e) > 0

(* C22: for every standard-output write, the caller of the intercepted     *)
(* write gets the value the original write returned, whatever the number   *)
(* of registered sessions and whatever the writes to their sockets return. *)
C22_ReturnValuePreserved ==
    /\ Len(retLog) = nWrites
    /\ \A w \in 1..nWrites : retLog[w].ret = retLog[w].orig

C22_Witness ==
    \E w \in 1..nWrites :
        /\ Cardinality(regAtWrite[w]) > 1
        /\ retLog[w].orig
        /\ retLog[w].full
        /\ retLog[w].ret

(* C24: a line evaluated in a session reads, of a binding of the global    *)
(* context, the value assigned to it last, whether an earlier line of a    *)
(* session or the host program assigned it, and the host program reads the *)
(* value a line assigned: evaluation runs against the live global context  *)
(* of the process.                                                         *)
C24_SharedLiveState ==
    /\ lastEval.conn # 0 => lastEval.seen = lastEval.was.val
    /\ hostSeen # NoRead => hostSeen.seen = hostSeen.was.val
    /\ binding = assigned.val

C24_Witness ==
    /\ hostSeen.was.by \in Conns
    /\ hostSeen.seen \in Values
    /\ lastEval.conn \in Conns
    /\ lastEval.was.by = 0
    /\ lastEval.seen \in Values
    /\ assigned.by = lastEval.conn

(* C26: an error of the reset class on the socket of a session is not      *)
(* written as the result of a line or anywhere else, does not leave the    *)
(* handler, and changes neither the server nor any other session.          *)
C26_ResetErrorSwallowed ==
    [][\A c \in Conns :
          SocketLost(c) =>
              /\ nWrites' = nWrites /\ termLog' = termLog
              /\ sockOut' = sockOut /\ sockCalls' = sockCalls
              /\ escaped' = escaped
              /\ nServe' = nServe /\ stdoutSessions' = stdoutSessions
              /\ \A d \in Conns \ {c} : SessionState(d)' = SessionState(d)]_vars

C26_Witness ==
    \E c, d \in Conns :
        /\ c # d
        /\ nWrites = 0
        /\ sockState[c] = "destroyed" /\ replState[c] = "running"
        /\ c \in Registered
        /\ sockState[d] = "open" /\ replState[d] = "running"

(* C23: on a connection the client writes one handshake frame, it is the   *)
(* first data written to the socket, and every submitted line is written   *)
(* after it, as the line followed by a newline, in submission order.       *)
C23_HandshakeFirst ==
    /\ cpc = "connect" => submitted = <<>>
    /\ (kpc \in {"writing", "resolved"} \/ submitted # <<>>) =>
          /\ Len(sent) = Len(submitted) + 1
          /\ sent[1] = Stringify(optPrompt)
          /\ \A i \in 1..Len(submitted) : sent[i + 1] = submitted[i] \o <<NL>>
    /\ kpc \in {"idle", "pathExists", "readFile", "connecting"} => sent = <<>>

C23_Witness ==
    /\ kpc = "resolved"
    /\ optPrompt \notin {NoPrompt, <<>>}
    /\ Len(submitted) = 2
    /\ submitted[1] # submitted[2]
    /\ Len(sent) = 3

(* C27: a "pause" event of the client's terminal destroys the socket at    *)
(* once, whatever the armed flag and whether or not the continuation       *)
(* prompt is displayed.                                                    *)
C27_PauseDestroys ==
    /\ \A i \in 1..Len(pauseLog) :
          pauseLog[i].sock = "open" /\ pauseLog[i].sock2 = "destroyed"
    /\ pauseLog # <<>> => csock # "open"

C27_Witness ==
    \E i \in 1..Len(pauseLog) :
        /\ pauseLog[i].armed
        /\ pauseLog[i].ml
        /\ csock = "destroyed"

(* C25: a host/port endpoint is passed to listen and connect as given,     *)
(* with no path set; a path is passed unchanged on platforms other than    *)
(* Windows; on Windows it is passed with the named-pipe prefix, added only *)
(* when the path does not begin with it, so that resolving a resolved path *)
(* gives the same path.                                                    *)
Resolved(given, passed) ==
    /\ platform # "win32" => passed = given
    /\ platform = "win32" =>
          /\ BeginsWith(passed, PipePrefix)
          /\ BeginsWith(given, PipePrefix) => passed = given
          /\ ~BeginsWith(given, PipePrefix) => passed = PipePrefix \o given
    /\ ResolveSockPath(platform, passed) = passed

C25_EndpointResolution ==
    /\ optPath # NoPath => Resolved(sockPath, optPath)
    /\ kOptPath # NoPath => Resolved(kPath, kOptPath)
    /\ (listenOn.type \in {"path", "pipe"}) => optPath # NoPath
    /\ (kTarget.type \in {"path", "pipe"}) => kOptPath # NoPath
    /\ sArg = "tcp" => (listenOn.type = "tcp" /\ optPath = NoPath)
    /\ kTarget.type = "tcp" => kOptPath = NoPath

C25_Witness ==
    /\ platform = "win32"
    /\ spc = "resolved"
    /\ sockPath = <<"a">>
    /\ optPath = PipePrefix \o <<"a">>
    /\ kpc = "resolved"
    /\ kPath = PipePrefix \o <<"a">>
    /\ kOptPath = kPath

(* C28: each connection moves only along AwaitingHandshake -> Active ->    *)
(* Closed or AwaitingHandshake -> Closed, and Closed is final; an          *)
(* evaluation context exists only in Active; at most one evaluation        *)
(* context is created for a connection, and only its first data frame is   *)
(* parsed as a handshake: later frames are input of the evaluation context.*)
Phase(c) ==
    IF sockState[c] = "none" THEN "NotConnected"
    ELSE IF \/ sockState[c] = "closed"
            \/ replState[c] = "closed"
            \/ hsDone[c] /\ nRepl[c] = 0
    THEN "Closed"
    ELSE IF hsDone[c] THEN "Active"
    ELSE "AwaitingHandshake"

PhaseMoves ==
    {<<"NotConnected", "AwaitingHandshake">>, <<"AwaitingHandshake", "Active">>,
     <<"AwaitingHandshake", "Closed">>, <<"Active", "Closed">>}

C28_SessionStateMachine ==
    [][\A c \in Conns :
          /\ Phase(c)' # Phase(c) => <<Phase(c), Phase(c)'>> \in PhaseMoves
          /\ replState'[c] = "running" <=> Phase(c)' = "Active"
          /\ nRepl'[c] <= 1 /\ nParse'[c] <= 1
          /\ nParse'[c] # nParse[c] => Phase(c) = "AwaitingHandshake"
          /\ (nEval' # nEval /\ lastEval'.conn = c) =>
                /\ Phase(c) = "Active"
                /\ nParse'[c] = nParse[c] /\ nRepl'[c] = nRepl[c]]_vars

C28_Witness ==
    \E c, d \in Conns :
        /\ c # d
        /\ Phase(c) = "Closed" /\ nRepl[c] = 1 /\ nParse[c] = 1
        /\ lastEval.conn = c
        /\ Phase(d) = "Closed" /\ nRepl[d] = 0 /\ nParse[d] = 1

(* C29: for an Active session the exit command and the socket close may    *)
(* come in either order, each running the other's handler, and the final   *)
(* state is the same: socket destroyed, evaluation context closed, socket  *)
(* absent from the Registration Set; deleting an absent socket does not    *)
(* fail, and a socket that closes before any handshake frame is handled    *)
(* without error and without creating a session.                           *)
C29_ExitAndCloseAgree ==
    \A c \in Conns :
        /\ (sockState[c] = "closed" /\ nRepl[c] = 1) =>
              /\ replState[c] = "closed"
              /\ c \notin Registered
        /\ (replState[c] = "closed") =>
              /\ sockState[c] \in {"destroyed", "closed"}
              /\ c \notin Registered
              /\ ENABLED SocketClose(c) \/ sockState[c] = "closed"
        /\ (replState[c] = "running" /\ sockState[c] = "destroyed") =>
              ENABLED SocketClose(c)
        /\ (sockState[c] = "closed" /\ ~hsDone[c]) =>
              /\ replState[c] = "undef" /\ nRepl[c] = 0 /\ nParse[c] = 0
              /\ c \notin Registered

C29_Witness ==
    \E c, d \in Conns :
        /\ c # d
        /\ sockState[c] = "closed" /\ replState[c] = "closed"
        /\ regAtHs[c] = "in" /\ c \notin Registered
        /\ sockState[d] = "closed" /\ ~hsDone[d]

(* C30: when an Active session receives the exit command the server        *)
(* destroys the socket of the connection, and the client then observes the *)
(* close, flushes its history and exits with status 0; and when the client *)
(* destroys its socket the session on the server eventually is Closed.     *)
C30_EndToEndExit ==
    /\ (ExitSent /\ replState[1] = "closed") ~>
          (cpc = "exited" /\ exitCode = 0 /\ sockState[1] # "open")
    /\ (csock = "destroyed") ~> (Phase(1) = "Closed")

(* C31: every chunk that does not begin with two configured prompts is     *)
(* written to the terminal unchanged, once, as the chunk of the same rank  *)
(* (the k-th write of the handler is made while the k-th chunk is handled),*)
(* and handling a chunk changes neither the armed flag nor the history.    *)
C31_VerbatimRendering ==
    /\ [](nRendered = nChunks)
    /\ [][nChunks' # nChunks =>
            /\ nRendered' = nRendered + 1
            /\ ~BeginsWith(chunk', ClientPrompt(optPrompt) \o
                                    ClientPrompt(optPrompt))
                  => rendered' = chunk'
            /\ canExit' = canExit
            /\ inputHistory' = inputHistory
            /\ historyDefined' = historyDefined]_vars

C31_Witness ==
    /\ nChunks = 2
    /\ nRendered = 2
    /\ canExit
    /\ inputHistory # <<>>
    /\ chunk = ClientPrompt(optPrompt) \o <<"x">>
    /\ rendered = chunk

(* The number of lines of a file: one per newline, and one more for what   *)
(* follows the last newline when that is not empty.                        *)
NumLines(content) ==
    Cardinality({i \in 1..Len(content) : content[i] = NL})
      + (IF content # <<>> /\ content[Len(content)] # NL THEN 1 ELSE 0)

(* The history once the file is loaded (none when readline keeps none).    *)
Loaded == IF historyDefined THEN inputHistory ELSE <<>>

(* C32: once the history file is loaded, and before any line, the history  *)
(* holds exactly one entry per line of the file, newest first: a newline   *)
(* at the end of the file adds no entry, and an empty file loads to the    *)
(* empty history, as a missing file does.                                  *)
C32_HistoryLoadFormat ==
    (cpc = "ready" /\ submitted = <<>> /\ ~lateLine) =>
        IF fileAtStart.exists
        THEN /\ Len(Loaded) = NumLines(fileAtStart.content)
             /\ Loaded = Reverse(FileLines(fileAtStart.content))
        ELSE Loaded = <<>>

(* Version order: the major first, then the minor, as integers.            *)
VersionAtLeast(v, major, minor) ==
    v.major > major \/ (v.major = major /\ v.minor >= minor)

(* C33: for every line evaluated, the rewrite of "await" is attempted if   *)
(* and only if the version of the host runtime is at least 7.6 in version  *)
(* order, and a line whose rewrite is not attempted or yields nothing is   *)
(* run as submitted.                                                       *)
C33_AwaitVersionGate ==
    nEval > 0 =>
        /\ lastEval.tried <=> VersionAtLeast(nodeVersion, 7, 6)
        /\ (~lastEval.tried \/ ProcessTopLevelAwait(lastEval.code) = <<>>)
              => lastEval.ran = lastEval.code

(* C34: whether the prompt option is absent, the empty string or a custom  *)
(* string, the prompt the client displays and corrects the echo with is    *)
(* the prompt the REPL of its session is started with from the handshake   *)
(* frame.                                                                  *)
C34_PromptAgreement ==
    (cpc # "connect" /\ sent # <<>>) =>
        /\ prompt = ClientPrompt(optPrompt)
        /\ ClientPrompt(optPrompt) = ReplPrompt(sent[1])

(* C35: for a history file that exists when the first client starts, as    *)
(* long as no line is submitted the file keeps the content it had, over    *)
(* any number of connections that load it and close: what the close        *)
(* handler writes is the content that was read.                            *)
C35_FlushIdempotent ==
    (fileAtStart.exists /\ submitted = <<>> /\ ~lateLine) =>
        /\ fileExists
        /\ fileContent = fileAtStart.content
        /\ cpc = "writeFile" => writeBuf = fileAtStart.content
        /\ cpc # "threw"

C35_Witness ==
    /\ fileAtStart = [exists |-> TRUE, content |-> <<"a", NL>>]
    /\ submitted = <<>>
    /\ ~lateLine
    /\ ~terminal
    /\ nRuns = 2
    /\ cpc = "exited"
    /\ writeBuf = <<"a", NL>>
    /\ fileContent = writeBuf

(* C36: whatever the lines of the history file at connection start and the *)
(* lines submitted, the history in memory never holds more than            *)
(* historySize entries (100 by default), and neither does the file once    *)
(* the close handler has written it.                                       *)
C36_HistorySizeBound ==
    /\ Len(Loaded) <= HistorySize(optHistorySize)
    /\ cpc = "exited" => NumLines(fileContent) <= HistorySize(optHistorySize)

(* C37: a session whose handshake set noStdout to true is never in a Set   *)
(* and no standard-output write is delivered to its socket; a write to     *)
(* standard output, by the host or from another session, changes nothing   *)
(* of what the server has written to that socket, which is what its own    *)
(* REPL wrote.                                                             *)
C37_OptOutNoninterference ==
    /\ [](\A c \in Conns :
            (hsDone[c] /\ NoStdout(frame[c])) =>
                /\ c \notin Registered
                /\ sockCalls[c] = <<>>
                /\ sockErrs[c] = <<>>)
    /\ [][\A c \in Conns :
            (hsDone[c] /\ NoStdout(frame[c]) /\ nWrites' # nWrites) =>
                /\ sockOut'[c] = sockOut[c]
                /\ sockCalls'[c] = sockCalls[c]]_vars

C37_Witness ==
    /\ hsDone[1] /\ frame[1] = [kind |-> "valid", noStdout |-> "true"]
    /\ hsDone[2] /\ frame[2] = [kind |-> "valid", noStdout |-> "absent"]
    /\ connSrv[1] = connSrv[2]
    /\ nWrites = 1
    /\ sockCalls[2] = <<1>>
    /\ sockCalls[1] = <<>>
    /\ Len(sockOut[1]) = 2
    /\ lastEval.conn = 2

====
